---- MODULE Spec2Model ----
(***************************************************************************)
(* API loader and request pipeline assembler of the gateway                *)
(* (src/unnamed/part_000, package gateway): loadApps, loadHTTPService,     *)
(* processSpec, the listen-path arbiter, and the loop dispatcher of        *)
(* DummyProxyHandler.ServeHTTP.                                            *)
(*                                                                         *)
(* Strings are sequences of one-character strings, so that concatenation,  *)
(* prefixes and lengths are computed as the code computes them.            *)
(***************************************************************************)
EXTENDS Integers, Sequences, FiniteSets, TLC

VARIABLES
    cfg,              \* gateway configuration read through gw.GetConfig()
    apisByID,         \* gw.apisByID: api_id -> *APISpec (Nil: no entry)
    apisHandlesByID,  \* gw.apisHandlesByID: api_id -> *ChainObject (Nil: no entry)
    router,           \* gw.DefaultProxyMux: the routes of the live router set, in registration order
    ldr,              \* the loader thread: position in loadApps and its locals
    prev,             \* history: the tables and routes as they were when the running reload began
    unloaded,         \* history: the spec objects on which Unload() ran during the running reload
    req               \* the request in flight (pc = "none": no request)

vars == <<cfg, apisByID, apisHandlesByID, router, ldr, prev, unloaded, req>>

----------------------------------------------------------------------------
(* Values                                                                  *)

Nil == [nil |-> TRUE]

\* api ids of the model's descriptors
ID_a == <<"a">>
ID_b == <<"b">>
ID_c == <<"c">>

\* listen paths, domains
P_x == <<"/", "x">>
P_xb == <<"/", "x", "-", "b">>
P_bad == <<"/", "{">>
P_c == <<"/", "c">>
NoDomain == <<>>
Dom_h == <<"h">>

\* target URLs: Parses = FALSE stands for a string url.Parse rejects
URL(scheme, host, parses) == [Scheme |-> scheme, Host |-> host, Parses |-> parses]
Upstream == URL("http", <<"u">>, TRUE)

\* number of content revisions a descriptor of the model can go through
NumRevs == 2

----------------------------------------------------------------------------
(* Sequences helpers                                                       *)

Range(s) == {s[i] : i \in 1..Len(s)}

Contains(s, ch) == ch \in Range(s)

HasSuffix(s, suf) ==
    /\ Len(suf) <= Len(s)
    /\ SubSeq(s, Len(s) - Len(suf) + 1, Len(s)) = suf

HasPrefix(s, pre) ==
    /\ Len(pre) <= Len(s)
    /\ SubSeq(s, 1, Len(pre)) = pre

CountChar(s, ch) == Cardinality({i \in 1..Len(s) : s[i] = ch})

\* strings.Split(s, "/")
RECURSIVE SplitSlash(_)
SplitSlash(s) ==
    IF ~Contains(s, "/") THEN <<s>>
    ELSE LET i == CHOOSE k \in 1..Len(s) : s[k] = "/" /\ \A j \in 1..(k-1) : s[j] # "/"
         IN <<SubSeq(s, 1, i - 1)>> \o SplitSlash(SubSeq(s, i + 1, Len(s)))

RECURSIVE SumSeq(_)
SumSeq(s) == IF s = <<>> THEN 0 ELSE Head(s) + SumSeq(Tail(s))

\* all orderings of the elements of a set
Perms(S) == {p \in [1..Cardinality(S) -> S] : \A x \in S : \E i \in DOMAIN p : p[i] = x}

----------------------------------------------------------------------------
(* Descriptors                                                             *)

\* An API definition as the definitions source declares it.  Checksum stands
\* for the checksum taken over the declared content when the APISpec is made.
\* InvalidOAS: the definition is in the OAS shape and lacks the extension.
Decl(id, name, oid, domain, path, target, internal, keyless, proto, rev) ==
    [APIID |-> id, Name |-> name, Id |-> oid, Domain |-> domain,
     ListenPath |-> path, TargetURL |-> target, Internal |-> internal,
     UseKeylessAccess |-> keyless, Protocol |-> proto, InvalidOAS |-> FALSE,
     Checksum |-> <<id, name, oid, domain, path, target, internal, keyless, proto, rev>>]

\* the same definition in the OAS shape without the extension
WithoutTykExtension(d) ==
    [d EXCEPT !.InvalidOAS = TRUE, !.Checksum = Append(d.Checksum, "oas")]

\* Object identity.  Objects are compared only for identity, so an address is
\* kept as its age: "old" for an object that existed when the running reload
\* began, NewObj for one the running reload made, "stale" for one that an
\* earlier reload dropped from the tables and a request still holds.
NewObj == "new"

\* A fresh *APISpec made from a declaration.
MakeSpec(d) == [obj |-> NewObj] @@ d

\* APIDefinition.GetAPIDomain
GetAPIDomain(spec) == spec.Domain

\* A spec has changed when there is no loaded one or the checksums differ.
shouldReloadSpec(existingSpec, newSpec) ==
    \/ existingSpec = Nil
    \/ existingSpec.Checksum # newSpec.Checksum

\* httputil.ValidatePath: a path whose braces do not balance is no router template
ValidatePathFails(path) == CountChar(path, "{") # CountChar(path, "}")

----------------------------------------------------------------------------
(* Listen-path arbitration                                                 *)

generateDomainPath(hostname, listenPath) == hostname \o listenPath

\* countApisByListenHash: hash -> number of specs of the load declaring it
countApisByListenHash(specs) ==
    LET hashOf(i) == generateDomainPath(GetAPIDomain(specs[i]), specs[i].ListenPath)
    IN [h \in {hashOf(i) : i \in 1..Len(specs)} |->
            Cardinality({i \in 1..Len(specs) : hashOf(i) = h})]

\* a Go map read: the zero value for a key that is not there
CountOf(apisByListen, hash) ==
    IF hash \in DOMAIN apisByListen THEN apisByListen[hash] ELSE 0

\* an arbiter that appends '_' where the code appends "-" and the api id
ArbitratePath_UnderscoreFirst(spec, listenPath, pathModified, apisByListen, prevSpec) ==
    IF CountOf(apisByListen, generateDomainPath(GetAPIDomain(spec), listenPath)) < 2
    THEN listenPath
    ELSE listenPath \o <<"_">>

\* the for-loop of processSpec, lines 194-216: the listen path it ends with
RECURSIVE ArbitratePath(_, _, _, _, _)
ArbitratePath(spec, listenPath, pathModified, apisByListen, prevSpec) ==
    LET hash == generateDomainPath(GetAPIDomain(spec), listenPath) IN
    IF CountOf(apisByListen, hash) < 2 THEN listenPath
    ELSE IF ~pathModified
         THEN IF prevSpec # Nil /\ prevSpec.ListenPath = listenPath
              THEN listenPath
              ELSE ArbitratePath(spec, listenPath \o <<"-">> \o spec.APIID, TRUE,
                                 apisByListen, prevSpec)
         ELSE ArbitratePath(spec, listenPath \o <<"_">>, TRUE, apisByListen, prevSpec)

----------------------------------------------------------------------------
(* Sorting                                                                 *)

IsParamSegment(segment) ==
    Len(segment) > 2 /\ segment[1] = "{" /\ segment[Len(segment)] = "}"

\* a length that counts the parameter segments as well
listenPathLength_WithParams(listenPath) == Len(listenPath)

listenPathLength(listenPath) ==
    IF ~Contains(listenPath, "{") THEN Len(listenPath)
    ELSE LET segs == SplitSlash(listenPath)
         IN CountChar(listenPath, "/")
            + SumSeq([i \in 1..Len(segs) |->
                        IF IsParamSegment(segs[i]) THEN 0 ELSE Len(segs[i])])

\* the less function handed to sort.Slice
SpecLess(si, sj) ==
    IF (si.Domain = <<>>) # (sj.Domain = <<>>)
    THEN si.Domain # <<>>
    ELSE listenPathLength(si.ListenPath) > listenPathLength(sj.ListenPath)

\* sortSpecsByListenPath: the orders sort.Slice can leave the specs in
sortSpecsByListenPath(S) ==
    {p \in Perms(S) : \A i, j \in DOMAIN p : i < j => ~SpecLess(p[j], p[i])}

----------------------------------------------------------------------------
(* processSpec                                                             *)

IDs == {ID_a, ID_b, ID_c}

NoTable == [id \in IDs |-> Nil]

\* gw.getApiSpec
getApiSpec(apiID) == apisByID[apiID]

skipSpecBecauseInvalid(spec) ==
    \/ /\ spec.Protocol \in {"", "http", "https"}
       /\ \/ spec.ListenPath = <<>>
          \/ Contains(spec.ListenPath, " ")
    \/ ~spec.TargetURL.Parses

\* The chain object with what the model needs of the handlers it points to:
\* the api and the target of the spec the terminal handler was made for, and
\* whether the authentication stages are in the main chain (lines 333-394).
ChainObject(spec, thisHandler, rateLimitChain, open, skip) ==
    [APIID |-> spec.APIID, obj |-> spec.obj, Target |-> spec.TargetURL,
     ThisHandler |-> thisHandler, RateLimitChain |-> rateLimitChain,
     Open |-> open, Skip |-> skip,
     AuthStages |-> thisHandler /\ ~spec.UseKeylessAccess]

\* a composer that returns at the internal flag, before it builds the handlers
processSpec_InternalUnbuilt(spec, apisByListen) ==
    [panic |-> FALSE, spec |-> spec,
     chain |-> IF skipSpecBecauseInvalid(spec) \/ spec.Internal
               THEN ChainObject(spec, FALSE, FALSE, FALSE, TRUE)
               ELSE ChainObject(spec, TRUE, ~spec.UseKeylessAccess,
                                spec.UseKeylessAccess, FALSE)]

\* a composer that builds the rate-limit chain for every valid spec
processSpec_RateLimitAlways(spec, apisByListen) ==
    IF skipSpecBecauseInvalid(spec)
    THEN [panic |-> FALSE, spec |-> spec,
          chain |-> ChainObject(spec, FALSE, FALSE, FALSE, TRUE)]
    ELSE [panic |-> spec.InvalidOAS, spec |-> spec,
          chain |-> IF spec.InvalidOAS THEN Nil
                    ELSE ChainObject(spec, TRUE, TRUE, spec.UseKeylessAccess,
                                     spec.Internal)]

\* processSpec: the spec as it leaves it and the chain object it returns; or
\* it panics while it composes the chain of a definition in the OAS shape that
\* lacks the extension (the case recoverFromLoadApiPanic tells apart)
processSpec(spec, apisByListen) ==
    IF skipSpecBecauseInvalid(spec)
    THEN [panic |-> FALSE, spec |-> spec,
          chain |-> ChainObject(spec, FALSE, FALSE, FALSE, TRUE)]
    ELSE LET listenPath == ArbitratePath(spec, spec.ListenPath, FALSE, apisByListen,
                                         getApiSpec(spec.APIID))
             spec2 == [spec EXCEPT !.ListenPath = listenPath]
         IN IF spec.InvalidOAS
            THEN [panic |-> TRUE, spec |-> spec2, chain |-> Nil]
            ELSE [panic |-> FALSE, spec |-> spec2,
                  chain |-> ChainObject(spec2, TRUE, ~spec.UseKeylessAccess,
                                        spec.UseKeylessAccess, spec.Internal)]

----------------------------------------------------------------------------
(* loadHTTPService                                                         *)

\* the host the routes of a spec are scoped to (empty: no host restriction)
RouteHost(spec) ==
    IF cfg.EnableCustomDomains /\ spec.Domain # <<>>
    THEN GetAPIDomain(spec)
    ELSE cfg.HostName

\* explicitRouteSubpaths: whether the strict-prefix gate is interposed
explicitRouteSubpaths(prefix, enabled) ==
    /\ enabled
    /\ ~HasSuffix(prefix, <<"/">>)
    /\ ~(Contains(prefix, "{") /\ Contains(prefix, "}"))

\* One prefix sub-router of loadHTTPService.  Listen tells the user-defined
\* listen path from the "/<api_id>/" prefix.
Route(host, prefix, chainObj, listen) ==
    [Host |-> host, Prefix |-> prefix, APIID |-> chainObj.APIID, Chain |-> chainObj,
     Listen |-> listen,
     RateLimit |-> ~chainObj.Open,
     Strict |-> explicitRouteSubpaths(prefix, cfg.EnableStrictRoutes)]

\* lines 819-841: the two prefixes a spec is registered under
Prefixes(spec, chainObj) ==
    << Route(RouteHost(spec), <<"/">> \o spec.APIID \o <<"/">>, chainObj, FALSE),
       Route(RouteHost(spec), spec.ListenPath, chainObj, TRUE) >>

\* a loadHTTPService that builds a chain for every spec, changed or not
loadHTTPService_AlwaysProcess(spec, apisByListen) ==
    IF ValidatePathFails(spec.ListenPath)
    THEN [kind |-> "error", spec |-> spec, chain |-> Nil, routes |-> <<>>]
    ELSE LET r == processSpec(spec, apisByListen) IN
         IF r.panic
         THEN [kind |-> "panic", spec |-> r.spec, chain |-> Nil, routes |-> <<>>]
         ELSE [kind |-> "ok", spec |-> r.spec, chain |-> r.chain,
               routes |-> IF r.chain.Skip THEN <<>> ELSE Prefixes(r.spec, r.chain)]

\* Outcome of loadHTTPService for one spec: kind "error" (ValidatePath),
\* "panic" (in processSpec, or a nil chain dereferenced at line 815) or "ok"
\* with the chain object,
\* the spec as processSpec left it and the routes registered.
loadHTTPService(spec, apisByListen) ==
    IF ValidatePathFails(spec.ListenPath)
    THEN [kind |-> "error", spec |-> spec, chain |-> Nil, routes |-> <<>>]
    ELSE IF ~shouldReloadSpec(getApiSpec(spec.APIID), spec)
    THEN LET chain == apisHandlesByID[spec.APIID] IN
         IF chain = Nil
         THEN [kind |-> "panic", spec |-> spec, chain |-> Nil, routes |-> <<>>]
         ELSE [kind |-> "ok", spec |-> spec, chain |-> chain,
               routes |-> IF chain.Skip THEN <<>> ELSE Prefixes(spec, chain)]
    ELSE LET r == processSpec(spec, apisByListen) IN
         IF r.panic
         THEN [kind |-> "panic", spec |-> r.spec, chain |-> Nil, routes |-> <<>>]
         ELSE [kind |-> "ok", spec |-> r.spec, chain |-> r.chain,
               routes |-> IF r.chain.Skip THEN <<>> ELSE Prefixes(r.spec, r.chain)]

----------------------------------------------------------------------------
(* loadApps                                                                *)

IsHTTPFamily(spec) == spec.Protocol \in {"", "http", "https", "h2c"}

\* a loop without the recover of line 1017: it ends at the first panic
RECURSIVE LoadSpecs_NoRecover(_, _, _, _)
LoadSpecs_NoRecover(specs, i, apisByListen, acc) ==
    IF i > Len(specs) THEN acc
    ELSE LET spec == specs[i]
             currSpec == getApiSpec(spec.APIID)
             r == IF IsHTTPFamily(spec)
                  THEN loadHTTPService(spec, apisByListen)
                  ELSE [kind |-> "tcp", spec |-> spec, chain |-> Nil, routes |-> <<>>]
             left == IF r.kind \in {"ok", "tcp"} /\ "BaseID" \in DOMAIN r.spec
                     THEN [r.spec EXCEPT !.BaseID = <<>>]
                     ELSE r.spec
             registered == IF ~shouldReloadSpec(currSpec, spec) THEN currSpec ELSE left
             acc2 == [reg |-> [acc.reg EXCEPT ![spec.APIID] = registered],
                      handles |-> IF r.kind = "ok"
                                  THEN [acc.handles EXCEPT ![spec.APIID] = r.chain]
                                  ELSE acc.handles,
                      routes |-> acc.routes \o r.routes,
                      specs |-> Append(acc.specs, left),
                      panicked |-> IF r.kind = "panic"
                                   THEN acc.panicked \cup {spec.APIID}
                                   ELSE acc.panicked]
         IN IF r.kind = "panic"
            THEN [acc2 EXCEPT !.specs = acc2.specs \o SubSeq(specs, i + 1, Len(specs))]
            ELSE LoadSpecs_NoRecover(specs, i + 1, apisByListen, acc2)

\* The body of the loop of loadApps, lines 1013-1062, for specs[i..]: acc holds
\* tmpSpecRegister (reg), tmpSpecHandles (handles), the routes registered on
\* the new muxer, the specs as the loop leaves them and (history) the api ids
\* of the specs whose processing ended in the recover of line 1017.
RECURSIVE LoadSpecs(_, _, _, _)
LoadSpecs(specs, i, apisByListen, acc) ==
    IF i > Len(specs) THEN acc
    ELSE LET spec == specs[i]
             currSpec == getApiSpec(spec.APIID)
             r == IF IsHTTPFamily(spec)
                  THEN loadHTTPService(spec, apisByListen)
                  ELSE [kind |-> "tcp", spec |-> spec, chain |-> Nil, routes |-> <<>>]
             \* line 1059: the base id of the spec handed in is cleared, unless
             \* loadHTTPService returned an error (line 1051) or panicked; a
             \* descriptor without version links has none
             left == IF r.kind \in {"ok", "tcp"} /\ "BaseID" \in DOMAIN r.spec
                     THEN [r.spec EXCEPT !.BaseID = <<>>]
                     ELSE r.spec
             \* tmpSpecRegister holds a pointer: what the loop does to the spec shows in it
             registered == IF ~shouldReloadSpec(currSpec, spec) THEN currSpec ELSE left
         IN LoadSpecs(specs, i + 1, apisByListen,
                [reg |-> [acc.reg EXCEPT ![spec.APIID] = registered],
                 handles |-> IF r.kind = "ok"
                             THEN [acc.handles EXCEPT ![spec.APIID] = r.chain]
                             ELSE acc.handles,
                 routes |-> acc.routes \o r.routes,
                 specs |-> Append(acc.specs, left),
                 panicked |-> IF r.kind = "panic"
                              THEN acc.panicked \cup {spec.APIID}
                              ELSE acc.panicked])

IdleLoader ==
    [pc |-> "idle", input |-> {}, specs |-> <<>>, tmpSpecRegister |-> NoTable,
     tmpSpecHandles |-> NoTable, muxer |-> <<>>, specsToUnload |-> {},
     panicked |-> {}]

NoHistory == [apisByID |-> NoTable, apisHandlesByID |-> NoTable, router |-> <<>>]

\* No request in flight.  chain: the chain object the request is in; level and
\* limit: the loop level and the loop limit of the request context, the level
\* being the number of times the request entered a chain through the loop
\* dispatcher; end: how it ended; lost (history): the
\* last ServeHTTP of the terminal handler saw a tyk:// host, other than self,
\* that matched no live descriptor, at the loop level and cap it records;
\* early (history): the request began before the running reload built its chains;
\* url: the URL of a request that waits in fuzzyFindAPI for the read lock.
NoLost == [is |-> FALSE, level |-> 0, cap |-> 0, badName |-> FALSE]

\* hit (history): the last ServeHTTP of the terminal handler, within the loop
\* cap, saw a tyk:// host, other than self, that matched the valid internal
\* descriptor id; sure: it matched no other descriptor and the lookup could
\* not panic on a name.
NoHit == [is |-> FALSE, id |-> <<>>, sure |-> FALSE]

\* via (history): the Host and the path the request came with and the route
\* the router matched: its api, host, prefix, whether its chain is open and has
\* the authentication stages, whether the strict-prefix gate is on it, and
\* the handler that served: "ratelimit", "main", "gate404" or "router404".
NoVia ==
    [kind |-> "none", host |-> <<>>, path |-> <<>>, api |-> <<>>,
     routeHost |-> <<>>, prefix |-> <<>>, open |-> FALSE, auth |-> FALSE,
     strict |-> FALSE]

NoEnd == [kind |-> "none", status |-> 0, msg |-> [text |-> "", arg |-> 0]]

NoRequest ==
    [pc |-> "none", chain |-> Nil, level |-> 0, limit |-> 0,
     end |-> NoEnd, lost |-> NoLost, hit |-> NoHit, via |-> NoVia,
     early |-> FALSE, url |-> Nil]

\* The *APISpec handed to loadApps for declaration d: the loaded object itself
\* when the caller passes it on unchanged (sameObj), a new object otherwise.
InputSpec(d, sameObj) ==
    IF sameObj /\ ~shouldReloadSpec(getApiSpec(d.APIID), d)
    THEN getApiSpec(d.APIID)
    ELSE MakeSpec(d)

\* loadApps up to line 1062: sort, count, build the new muxer and the new tables
LoadAppsBuild(inputs, sameObjs) ==
    /\ ldr.pc = "idle"
    /\ \E decls \in inputs, sameObj \in sameObjs :
         LET input == {InputSpec(d, sameObj) : d \in decls} IN
         \E specs \in sortSpecsByListenPath(input) :
            LET apisByListen == countApisByListenHash(specs)
                acc == LoadSpecs(specs, 1, apisByListen,
                                 [reg |-> NoTable, handles |-> NoTable,
                                  routes |-> <<>>, specs |-> <<>>, panicked |-> {}])
            IN ldr' = [pc |-> "built", input |-> input, specs |-> acc.specs,
                       tmpSpecRegister |-> acc.reg, tmpSpecHandles |-> acc.handles,
                       muxer |-> acc.routes, specsToUnload |-> {},
                       panicked |-> acc.panicked]
    /\ prev' = [apisByID |-> apisByID, apisHandlesByID |-> apisHandlesByID,
                router |-> router]
    /\ unloaded' = {}
    /\ req' = [req EXCEPT !.early = (req.pc \in {"chain", "rlock"})]
    /\ UNCHANGED <<cfg, apisByID, apisHandlesByID, router>>

\* line 1064: gw.DefaultProxyMux.swap(muxer, gw)
LoadAppsSwap ==
    /\ ldr.pc = "built"
    /\ router' = ldr.muxer
    /\ ldr' = [ldr EXCEPT !.pc = "swapped"]
    /\ UNCHANGED <<cfg, apisByID, apisHandlesByID, prev, unloaded, req>>

\* an unload list without the loaded specs that are absent from the new set
SpecsToUnload_ChangedOnly(specs, tmpSpecRegister) ==
    {apisByID[specs[i].APIID] :
        i \in {j \in 1..Len(specs) :
                 /\ apisByID[specs[j].APIID] # Nil
                 /\ shouldReloadSpec(apisByID[specs[j].APIID], specs[j])}}

\* lines 1066-1090: the specs to unload
SpecsToUnload(specs, tmpSpecRegister) ==
    {apisByID[specs[i].APIID] :
        i \in {j \in 1..Len(specs) :
                 /\ apisByID[specs[j].APIID] # Nil
                 /\ shouldReloadSpec(apisByID[specs[j].APIID], specs[j])}}
    \cup {apisByID[id] : id \in {x \in IDs : apisByID[x] # Nil /\ tmpSpecRegister[x] = Nil}}

\* lines 1076-1080, for specs[i..]: every descriptor of the register that a
\* spec lists among its versions gets the api id of that spec for its base id
RECURSIVE BindVersions(_, _, _)
BindVersions(specs, i, tmpSpecRegister) ==
    IF i > Len(specs) THEN tmpSpecRegister
    ELSE LET spec == specs[i]
             children == IF "Versions" \in DOMAIN spec THEN spec.Versions ELSE {}
         IN BindVersions(specs, i + 1,
                [id \in IDs |->
                    IF id \in children /\ tmpSpecRegister[id] # Nil
                       /\ "BaseID" \in DOMAIN tmpSpecRegister[id]
                    THEN [tmpSpecRegister[id] EXCEPT !.BaseID = spec.APIID]
                    ELSE tmpSpecRegister[id]])

\* line 1068: gw.apisMu.Lock().  A reader holds the lock only inside
\* fuzzyFindAPI, which is one step of a request, so the lock is free here.
LoadAppsLock ==
    /\ ldr.pc = "swapped"
    /\ ldr' = [ldr EXCEPT !.pc = "locked"]
    /\ UNCHANGED <<cfg, apisByID, apisHandlesByID, router, prev, unloaded, req>>

\* the loader holds gw.apisMu for writing
ApisMuLocked == ldr.pc = "locked"

\* lines 1070-1095, under gw.apisMu: collect the specs to unload, bind the
\* versions to their bases, install the tables, unlock
LoadAppsInstall ==
    /\ ldr.pc = "locked"
    /\ apisByID' = BindVersions(ldr.specs, 1, ldr.tmpSpecRegister)
    /\ apisHandlesByID' = ldr.tmpSpecHandles
    /\ ldr' = [ldr EXCEPT !.pc = "installed",
                          !.tmpSpecRegister = BindVersions(ldr.specs, 1, ldr.tmpSpecRegister),
                          !.specsToUnload = SpecsToUnload(ldr.specs, ldr.tmpSpecRegister)]
    /\ UNCHANGED <<cfg, router, prev, unloaded, req>>

\* lines 1097-1100: spec.Unload() on each
LoadAppsUnload ==
    /\ ldr.pc = "installed"
    /\ unloaded' = ldr.specsToUnload
    /\ ldr' = [ldr EXCEPT !.pc = "done"]
    /\ UNCHANGED <<cfg, apisByID, apisHandlesByID, router, prev, req>>

\* What the ages of the objects become when the reload is over: an object of
\* the live tables or routes is an old one for the next reload, any other is stale.
Settled(x) ==
    IF x = Nil THEN Nil
    ELSE IF x \in {apisHandlesByID[id] : id \in IDs}
                   \cup {router[k].Chain : k \in 1..Len(router)}
                   \cup {apisByID[id] : id \in IDs}
         THEN [x EXCEPT !.obj = "old"]
         ELSE [x EXCEPT !.obj = "stale"]

\* loadApps returns: its locals are gone
LoadAppsReturn ==
    /\ ldr.pc = "done"
    /\ ldr' = IdleLoader
    /\ prev' = NoHistory
    /\ unloaded' = {}
    /\ apisByID' = [id \in IDs |-> Settled(apisByID[id])]
    /\ apisHandlesByID' = [id \in IDs |-> Settled(apisHandlesByID[id])]
    /\ router' = [k \in 1..Len(router) |->
                    [router[k] EXCEPT !.Chain = Settled(router[k].Chain)]]
    /\ req' = [req EXCEPT !.chain = Settled(req.chain)]
    /\ UNCHANGED cfg

----------------------------------------------------------------------------
(* The descriptors of the loader specification                             *)

Plain(id, domain, path, target, rev) ==
    Decl(id, id, id, domain, path, target, FALSE, FALSE, "", rev)

\* the descriptor sets a load can be given: at most one descriptor per api id
DescriptorSets(universe) ==
    {S \in SUBSET universe : \A d1, d2 \in S : d1.APIID = d2.APIID => d1 = d2}

Configs ==
    {[EnableCustomDomains |-> ecd, HostName |-> <<>>, EnableStrictRoutes |-> FALSE] :
        ecd \in BOOLEAN}

\* The loader specification runs with custom domains enabled.
Init ==
    /\ cfg \in {c \in Configs : c.EnableCustomDomains}
    /\ apisByID = NoTable
    /\ apisHandlesByID = NoTable
    /\ router = <<>>
    /\ ldr = IdleLoader
    /\ prev = NoHistory
    /\ unloaded = {}
    /\ req = NoRequest

Next ==
    \/ LoadAppsBuild(DescriptorSets(({Plain(ID_a, NoDomain, P_x, Upstream, rev) : rev \in 1..NumRevs}
                                     \cup {Plain(ID_b, NoDomain, P_x, Upstream, 1),
                                           Plain(ID_b, Dom_h, P_x, Upstream, 1)}
                                     \cup {Plain(ID_c, NoDomain, P_xb, Upstream, 1),
                                           Plain(ID_c, NoDomain, P_bad, Upstream, 1)})), BOOLEAN)
    \/ LoadAppsSwap
    \/ LoadAppsLock
    \/ LoadAppsInstall
    \/ LoadAppsUnload
    \/ LoadAppsReturn

Spec == Init /\ [][Next]_vars

----------------------------------------------------------------------------
(* The loop dispatcher                                                     *)

defaultLoopLevelLimit == 5

\* the host name that makes a request loop into its own API
Self == <<"s", "e", "l", "f">>

\* unicode.ToLower over the letters of the model
ToLower(ch) ==
    CASE ch = "A" -> "a"
      [] ch = "B" -> "b"
      [] ch = "N" -> "n"
      [] ch = "Z" -> "z"
      [] OTHER -> ch

\* strings.EqualFold
EqualFold(s, t) ==
    /\ Len(s) = Len(t)
    /\ \A i \in 1..Len(s) : ToLower(s[i]) = ToLower(t[i])

\* strings.Index for a one-character substring: 0-based, -1 when absent
Index(s, ch) ==
    IF ~Contains(s, ch) THEN -1
    ELSE (CHOOSE k \in 1..Len(s) : s[k] = ch /\ \A j \in 1..(k - 1) : s[j] # ch) - 1

\* trimCategories: name[:i-1]; the slice expression panics when i-1 < 0
trimCategories(name) ==
    LET i == Index(name, "#") IN
    IF i # -1
    THEN IF i - 1 < 0
         THEN [panic |-> TRUE, s |-> <<>>]
         ELSE [panic |-> FALSE, s |-> SubSeq(name, 1, i - 1)]
    ELSE [panic |-> FALSE, s |-> name]

IsAlphaNumeric(ch) == ch \notin {" ", "#", "-", "_", "/", "{", "}", "."}

\* every run of characters that are not alphanumeric becomes one "-"
RECURSIVE replaceNonAlphaNumeric(_)
replaceNonAlphaNumeric(s) ==
    IF s = <<>> THEN <<>>
    ELSE IF IsAlphaNumeric(Head(s))
         THEN <<Head(s)>> \o replaceNonAlphaNumeric(Tail(s))
         ELSE IF Len(s) > 1 /\ ~IsAlphaNumeric(s[2])
              THEN replaceNonAlphaNumeric(Tail(s))
              ELSE <<"-">> \o replaceNonAlphaNumeric(Tail(s))

APILoopingName(name) ==
    LET t == trimCategories(name) IN
    IF t.panic THEN t ELSE [panic |-> FALSE, s |-> replaceNonAlphaNumeric(t.s)]

\* the specs of gw.apisByID
LiveSpecs == {apisByID[id] : id \in IDs} \ {Nil}

\* the first two disjuncts of the condition of fuzzyFindAPI
MatchesByID(api, search) == api.APIID = search \/ api.Id = search

\* the third disjunct, where it is evaluated without a panic
MatchesByName(api, search) ==
    /\ ~APILoopingName(api.Name).panic
    /\ EqualFold(APILoopingName(api.Name).s, search)

\* the specs on which evaluating the condition of fuzzyFindAPI panics
PanicsOn(api, search) == ~MatchesByID(api, search) /\ APILoopingName(api.Name).panic

\* fuzzyFindAPI: the outcomes the iteration orders of the map allow.  The loop
\* returns the first spec that matches, and panics on a spec it visits before.
fuzzyFindAPI(search) ==
    IF search = <<>> THEN {[kind |-> "nil", api |-> Nil]}
    ELSE LET hits == {api \in LiveSpecs :
                        MatchesByID(api, search) \/ MatchesByName(api, search)}
             bad == {api \in LiveSpecs : PanicsOn(api, search)}
         IN {[kind |-> "api", api |-> a] : a \in hits}
            \cup (IF bad # {} THEN {[kind |-> "panic", api |-> Nil]} ELSE {})
            \cup (IF hits = {} /\ bad = {} THEN {[kind |-> "nil", api |-> Nil]} ELSE {})

\* chain.ThisHandler of an entry of the handle table; Nil: a nil http.Handler
ThisHandlerOf(h) == IF h # Nil /\ h.ThisHandler THEN h ELSE Nil

\* findInternalHttpHandlerByNameOrID
findInternalHttpHandlerByNameOrID(apiNameOrID) ==
    {IF f.kind = "panic" THEN [kind |-> "panic", handler |-> Nil]
     ELSE IF f.kind = "nil" \/ apisHandlesByID[f.api.APIID] = Nil
          THEN [kind |-> "notfound", handler |-> Nil]
          ELSE [kind |-> "found", handler |-> ThisHandlerOf(apisHandlesByID[f.api.APIID])] :
        f \in fuzzyFindAPI(apiNameOrID)}

\* ctxIncLoopLevel: the level and the limit of the request context after it;
\* the loop limit of the context is set once, by the first positive value
ctxIncLoopLevel(level, ctxLimit, loopLimit) ==
    [level |-> level + 1,
     limit |-> IF ctxLimit = 0 /\ loopLimit > 0 THEN loopLimit ELSE ctxLimit]

\* an isLoop that refuses a request whose level has reached the limit
isLoop_AtLimit(url, level, ctxLimit) ==
    IF url.Scheme # "tyk" THEN [found |-> FALSE, err |-> FALSE, limit |-> 0]
    ELSE LET limit == IF ctxLimit = 0 THEN defaultLoopLevelLimit ELSE ctxLimit
         IN [found |-> TRUE, err |-> level >= limit, limit |-> limit]

\* isLoop: found, whether it returns the loop-depth error, and the limit it used
isLoop(url, level, ctxLimit) ==
    IF url.Scheme # "tyk" THEN [found |-> FALSE, err |-> FALSE, limit |-> 0]
    ELSE LET limit == IF ctxLimit = 0 THEN defaultLoopLevelLimit ELSE ctxLimit
         IN [found |-> TRUE, err |-> level > limit, limit |-> limit]

\* messages of the error handler; arg is the number formatted into the text
Msg(text, arg) == [text |-> text, arg |-> arg]
NoMsg == Msg("", 0)
LoopTooDeep(limit) == Msg("Loop level too deep. Found more than %d loops in single request", limit)
CantDetectLoopTarget == Msg("Can't detect loop target", 0)

\* How a ServeHTTP of the terminal handler ends: kind "error" (the error
\* handler answered), "panic" (the goroutine panicked, nothing was answered),
\* "dispatch" (handler.ServeHTTP entered the chain `handler`) or "proxy" (the
\* request went upstream); with the loop level and limit of the context.
Outcome(kind, status, msg, handler, level, limit) ==
    [kind |-> kind, status |-> status, msg |-> msg, handler |-> handler,
     level |-> level, limit |-> limit]

\* what handler.ServeHTTP does with the handler the dispatcher resolved
Dispatch(handler, level, limit) ==
    IF handler = Nil
    THEN Outcome("panic", 0, NoMsg, Nil, level, limit)
    ELSE Outcome("dispatch", 0, NoMsg, handler, level, limit)

\* DummyProxyHandler.ServeHTTP of the chain `chain` for a request that reaches
\* it with the URL `url` and the context (level, ctxLimit): the set of outcomes
ServeHTTP(chain, url, level, ctxLimit) ==
    LET loop == isLoop(url, level, ctxLimit) IN
    IF loop.found
    THEN IF loop.err
         THEN {Outcome("error", 500, LoopTooDeep(loop.limit), Nil, level, ctxLimit)}
         ELSE LET ctx == ctxIncLoopLevel(level, ctxLimit, url.LoopLimit) IN
              IF url.Host = Self
              THEN {Dispatch(ThisHandlerOf(apisHandlesByID[chain.APIID]), ctx.level, ctx.limit)}
              ELSE {IF f.kind = "panic"
                    THEN Outcome("panic", 0, NoMsg, Nil, level, ctxLimit)
                    ELSE IF f.kind = "nil"
                    THEN Outcome("error", 500, CantDetectLoopTarget, Nil, level, ctxLimit)
                    ELSE Dispatch(ThisHandlerOf(apisHandlesByID[f.api.APIID]),
                                  ctx.level, ctx.limit) :
                       f \in fuzzyFindAPI(url.Host)}
    ELSE IF chain.Target.Scheme = "tyk"
    THEN {IF h.kind = "panic"
          THEN Outcome("panic", 0, NoMsg, Nil, level, ctxLimit)
          ELSE IF h.kind = "notfound"
          THEN Outcome("error", 500, Msg("Couldn't detect target", 0), Nil, level, ctxLimit)
          ELSE Dispatch(h.handler, level, ctxLimit) :
             h \in findInternalHttpHandlerByNameOrID(chain.Target.Host)}
    ELSE {Outcome("proxy", 200, NoMsg, Nil, level, ctxLimit)}

----------------------------------------------------------------------------
(* Requests                                                                *)

\* The live router matches a request and hands it to the chain of the route.
ReqStart ==
    /\ req.pc = "none"
    /\ \E k \in 1..Len(router) :
          req' = [NoRequest EXCEPT !.pc = "chain", !.chain = router[k].Chain]
    /\ UNCHANGED <<cfg, apisByID, apisHandlesByID, router, ldr, prev, unloaded>>

\* Whether ServeHTTP reaches gw.apisMu.RLock() of fuzzyFindAPI (line 721): on
\* a loop to another API (line 622) and on a tyk:// target (line 653), with a
\* search string that is not empty (line 717).
NeedsRLock(chain, url, level, ctxLimit) ==
    LET loop == isLoop(url, level, ctxLimit) IN
    IF loop.found
    THEN ~loop.err /\ url.Host # Self /\ url.Host # <<>>
    ELSE chain.Target.Scheme = "tyk" /\ chain.Target.Host # <<>>

\* The terminal handler of the chain the request is in serves it with the URL url.
Served(url) ==
    \E out \in ServeHTTP(req.chain, url, req.level, req.limit) :
       LET goesOn == out.kind = "dispatch"
           matches == {api \in LiveSpecs :
                         MatchesByID(api, url.Host) \/ MatchesByName(api, url.Host)}
           noMatch == matches = {}
           internals == {api \in matches : api.Internal /\ ~skipSpecBecauseInvalid(api)}
           loop == isLoop(url, req.level, req.limit)
       IN req' = [pc |-> IF goesOn THEN "chain" ELSE "done",
                  chain |-> out.handler,
                  level |-> out.level,
                  limit |-> out.limit,
                  end |-> IF goesOn THEN NoEnd
                          ELSE [kind |-> out.kind, status |-> out.status, msg |-> out.msg],
                  lost |-> IF url.Scheme = "tyk" /\ url.Host # Self /\ noMatch
                           THEN [is |-> TRUE, level |-> req.level,
                                 cap |-> isLoop(url, req.level, req.limit).limit,
                                 badName |-> \E api \in LiveSpecs : PanicsOn(api, url.Host)]
                           ELSE NoLost,
                  hit |-> IF loop.found /\ ~loop.err /\ url.Host # Self /\ internals # {}
                          THEN [is |-> TRUE,
                                id |-> (CHOOSE api \in internals : TRUE).APIID,
                                sure |-> /\ Cardinality(matches) = 1
                                         /\ \A api \in LiveSpecs : ~PanicsOn(api, url.Host)]
                          ELSE NoHit,
                  via |-> req.via,
                  early |-> goesOn /\ req.early,
                  url |-> Nil]

\* The request runs through the chain it is in and reaches the terminal
\* handler; where the handler needs the read lock and the loader holds the
\* lock, the request waits in RLock.
ReqServeHTTP(urls) ==
    /\ req.pc = "chain"
    /\ \E url \in urls :
          IF NeedsRLock(req.chain, url, req.level, req.limit) /\ ApisMuLocked
          THEN req' = [req EXCEPT !.pc = "rlock", !.url = url]
          ELSE Served(url)
    /\ UNCHANGED <<cfg, apisByID, apisHandlesByID, router, ldr, prev, unloaded>>

\* The loader has unlocked gw.apisMu: RLock returns and the handler goes on.
ReqRLock ==
    /\ req.pc = "rlock"
    /\ ~ApisMuLocked
    /\ Served(req.url)
    /\ UNCHANGED <<cfg, apisByID, apisHandlesByID, router, ldr, prev, unloaded>>

\* The request is over.
ReqFinish ==
    /\ req.pc = "done"
    /\ req' = NoRequest
    /\ UNCHANGED <<cfg, apisByID, apisHandlesByID, router, ldr, prev, unloaded>>

\* the descriptors of the request specification
Named(id, name, oid, path, target) ==
    Decl(id, name, oid, NoDomain, path, target, FALSE, FALSE, "", 1)

InitReq ==
    /\ cfg \in {c \in Configs : c.EnableCustomDomains}
    /\ apisByID = NoTable
    /\ apisHandlesByID = NoTable
    /\ router = <<>>
    /\ ldr = IdleLoader
    /\ prev = NoHistory
    /\ unloaded = {}
    /\ req = NoRequest

\* The descriptors of the request specification are given by name; the URL a
\* request has when it reaches the terminal handler is rewritten by the chain
\* into a tyk:// URL, or is any other URL, and its loop_limit query parameter
\* is 0 (absent or not a number) or 1.
NextReq ==
    \/ LoadAppsBuild(DescriptorSets(({Named(ID_a, <<"a">>, <<"1">>, P_x, Upstream),
                                      Named(ID_a, <<"a">>, <<"1">>, P_x, URL("tyk", Self, TRUE)),
                                      Named(ID_b, <<"N", " ", "#", "c">>, <<"2">>, P_xb, URL("tyk", ID_a, TRUE)),
                                      Named(ID_b, <<"#", "c">>, <<"2">>, P_xb, Upstream)})), {FALSE})
    \/ LoadAppsSwap
    \/ LoadAppsLock
    \/ LoadAppsInstall
    \/ LoadAppsUnload
    \/ LoadAppsReturn
    \/ ReqStart
    \/ ReqServeHTTP(({[Scheme |-> "http", Host |-> <<>>, LoopLimit |-> 0]}
                     \cup {[Scheme |-> "tyk", Host |-> h, LoopLimit |-> l] :
                              h \in {Self, ID_a, <<"n">>, <<"z">>}, l \in {0, 1}}))
    \/ ReqRLock
    \/ ReqFinish

SpecReq == InitReq /\ [][NextReq]_vars

----------------------------------------------------------------------------
(* Routing: how the router built by loadHTTPService matches a request      *)

\* http.StatusText(http.StatusNotFound)
NotFoundText == Msg("Not Found", 0)

\* strings.TrimRight(s, "/"): the router joins the template of a sub-router
\* and the template of a route under it with the slashes at the end of the
\* first one taken off
RECURSIVE TrimRightSlash(_)
TrimRightSlash(s) ==
    IF s # <<>> /\ s[Len(s)] = "/" THEN TrimRightSlash(SubSeq(s, 1, Len(s) - 1)) ELSE s

\* the position of the first "}" of a template that begins with "{"
CloseBrace(tpl) == CHOOSE k \in 1..Len(tpl) : tpl[k] = "}" /\ \A j \in 1..(k - 1) : tpl[j] # "}"

\* Whether a path matches a route template: a variable {name} stands for one
\* or more characters other than "/", anything else for itself; a prefix
\* template (full = FALSE) may be followed by anything.
RECURSIVE TemplateMatch(_, _, _)
TemplateMatch(tpl, path, full) ==
    IF tpl = <<>> THEN (~full \/ path = <<>>)
    ELSE IF Head(tpl) = "{" /\ Contains(tpl, "}")
    THEN \E n \in 1..Len(path) :
            /\ \A i \in 1..n : path[i] # "/"
            /\ TemplateMatch(SubSeq(tpl, CloseBrace(tpl) + 1, Len(tpl)),
                             SubSeq(path, n + 1, Len(path)), full)
    ELSE /\ path # <<>>
         /\ Head(path) = Head(tpl)
         /\ TemplateMatch(Tail(tpl), Tail(path), full)

\* router.Host(hostname): routes without a host match every Host
HostMatches(routeHost, host) == routeHost = <<>> \/ routeHost = host

\* the path of the rate-limit route under a prefix: rateLimitEndpoint after it
RateLimitPath(prefix) ==
    TrimRightSlash(prefix)
    \o <<"/", "t", "y", "k", "/", "r", "a", "t", "e", "-", "l", "i", "m", "i", "t", "s", "/">>

\* a gate that lets every extension of the prefix through
GatePasses_AnyExtension(prefix, path) == HasPrefix(path, prefix)

\* explicitRouteHandler.ServeHTTP: whether the gate lets the request through
GatePasses(prefix, path) == path = prefix \/ HasPrefix(path, prefix \o <<"/">>)

\* a router whose prefixes have the catch-all route only
Resolve_CatchAllOnly(rt, host, path) ==
    LET matching == {k \in 1..Len(rt) :
                        /\ HostMatches(rt[k].Host, host)
                        /\ TemplateMatch(rt[k].Prefix, path, FALSE)}
    IN IF matching = {} THEN [kind |-> "router404", route |-> 0]
       ELSE [kind |-> "main", route |-> CHOOSE m \in matching : \A n \in matching : m <= n]

\* The handler the router rt hands a request to: the routes are tried in the
\* order of their registration; under a prefix the rate-limit route comes
\* before the catch-all route; route = 0: no route matched and the router's
\* NotFoundHandler serves.
Resolve(rt, host, path) ==
    LET matching == {k \in 1..Len(rt) :
                        /\ HostMatches(rt[k].Host, host)
                        /\ TemplateMatch(rt[k].Prefix, path, FALSE)}
    IN IF matching = {} THEN [kind |-> "router404", route |-> 0]
       ELSE LET k == CHOOSE m \in matching : \A n \in matching : m <= n IN
            IF rt[k].RateLimit /\ TemplateMatch(RateLimitPath(rt[k].Prefix), path, TRUE)
            THEN [kind |-> "ratelimit", route |-> k]
            ELSE IF rt[k].Strict /\ ~GatePasses(rt[k].Prefix, path)
            THEN [kind |-> "gate404", route |-> k]
            ELSE [kind |-> "main", route |-> k]

\* what the request record keeps of the route that was matched
ViaOf(rt, host, path) ==
    LET r == Resolve(rt, host, path) IN
    IF r.route = 0
    THEN [NoVia EXCEPT !.kind = r.kind, !.host = host, !.path = path]
    ELSE [kind |-> r.kind, host |-> host, path |-> path, api |-> rt[r.route].APIID,
          routeHost |-> rt[r.route].Host, prefix |-> rt[r.route].Prefix,
          open |-> rt[r.route].Chain.Open, auth |-> rt[r.route].Chain.AuthStages,
          strict |-> rt[r.route].Strict]

\* A request with the Host host and the path path arrives: the live router
\* matches it.  The main handler takes it into the chain; the rate-limit
\* chain answers it; the strict-prefix gate and the NotFoundHandler answer 404.
ReqRoute(hosts, paths) ==
    /\ req.pc = "none"
    /\ \E host \in hosts, path \in paths :
          LET r == Resolve(router, host, path)
              via == ViaOf(router, host, path)
          IN req' = CASE r.kind = "main" ->
                           [NoRequest EXCEPT !.pc = "chain", !.via = via,
                                             !.chain = router[r.route].Chain]
                      [] r.kind = "ratelimit" ->
                           [NoRequest EXCEPT !.pc = "done", !.via = via,
                                             !.end = [kind |-> "ratelimit", status |-> 200,
                                                      msg |-> NoMsg]]
                      [] OTHER ->
                           [NoRequest EXCEPT !.pc = "done", !.via = via,
                                             !.end = [kind |-> "notfound", status |-> 404,
                                                      msg |-> NotFoundText]]
    /\ UNCHANGED <<cfg, apisByID, apisHandlesByID, router, ldr, prev, unloaded>>

\* the descriptors of the routing specification
P_o == <<"/", "o">>

Routed(id, domain, path, keyless) ==
    Decl(id, id, id, domain, path, Upstream, FALSE, keyless, "", 1)

RouteUniverse ==
    {Routed(ID_a, NoDomain, P_x, FALSE)}
    \cup {Routed(ID_b, NoDomain, P_o, TRUE),
          Routed(ID_b, NoDomain, <<"/", "x", "/">>, TRUE)}
    \cup {Routed(ID_c, Dom_h, P_x, FALSE),
          Routed(ID_c, NoDomain, <<"/", "{", "i", "}">>, FALSE)}

\* the Hosts and the paths of the requests
RouteHosts == {Dom_h, <<"q">>}

RoutePaths ==
    {P_x, <<"/", "x", "y">>, <<"/", "x", "/", "y">>,
     RateLimitPath(P_x), RateLimitPath(P_o)}

InitRoute ==
    /\ cfg \in {[EnableCustomDomains |-> TRUE, HostName |-> <<>>, EnableStrictRoutes |-> TRUE],
                [EnableCustomDomains |-> TRUE, HostName |-> <<>>, EnableStrictRoutes |-> FALSE],
                [EnableCustomDomains |-> FALSE, HostName |-> <<"g">>,
                 EnableStrictRoutes |-> FALSE]}
    /\ apisByID = NoTable
    /\ apisHandlesByID = NoTable
    /\ router = <<>>
    /\ ldr = IdleLoader
    /\ prev = NoHistory
    /\ unloaded = {}
    /\ req = NoRequest

NextRoute ==
    \/ LoadAppsBuild(DescriptorSets(RouteUniverse), {FALSE})
    \/ LoadAppsSwap
    \/ LoadAppsLock
    \/ LoadAppsInstall
    \/ LoadAppsUnload
    \/ LoadAppsReturn
    \/ ReqRoute(RouteHosts, RoutePaths)
    \/ ReqServeHTTP({[Scheme |-> "http", Host |-> <<>>, LoopLimit |-> 0]})
    \/ ReqFinish

SpecRoute == InitRoute /\ [][NextRoute]_vars

----------------------------------------------------------------------------
(* The sort specification: sortSpecsByListenPath applied to descriptor     *)
(* lists, in which a descriptor may have equals under the less function    *)

\* sort.Slice sorts a slice of at most this many elements by insertion
MaxInsertion == 12

\* insertion of x into a sorted list: x moves left past the elements it is
\* less than
RECURSIVE InsertLeft(_, _)
InsertLeft(sorted, x) ==
    IF sorted = <<>> \/ ~SpecLess(x, sorted[Len(sorted)])
    THEN Append(sorted, x)
    ELSE Append(InsertLeft(SubSeq(sorted, 1, Len(sorted) - 1), x), sorted[Len(sorted)])

RECURSIVE InsertionSort(_)
InsertionSort(specs) ==
    IF specs = <<>> THEN <<>>
    ELSE InsertLeft(InsertionSort(SubSeq(specs, 1, Len(specs) - 1)), specs[Len(specs)])

\* the list without the first occurrence of e
RECURSIVE RemoveFirst(_, _)
RemoveFirst(specs, e) ==
    IF specs = <<>> THEN <<>>
    ELSE IF Head(specs) = e THEN Tail(specs)
    ELSE <<Head(specs)>> \o RemoveFirst(Tail(specs), e)

\* every order of the list in which no element is less than an earlier one
RECURSIVE SortedOrders(_)
SortedOrders(specs) ==
    IF specs = <<>> THEN {<<>>}
    ELSE UNION {{<<e>> \o rest : rest \in SortedOrders(RemoveFirst(specs, e))} :
                    e \in {specs[k] : k \in {i \in DOMAIN specs :
                                \A j \in DOMAIN specs : ~SpecLess(specs[j], specs[i])}}}

\* sort.Slice with the less function of sortSpecsByListenPath: a short slice
\* is sorted by insertion; for a longer one the order of the elements that
\* are equal under less is not defined
SortSlice(specs) ==
    IF Len(specs) <= MaxInsertion THEN {InsertionSort(specs)} ELSE SortedOrders(specs)

\* the inputs: lists of up to three descriptors, and lists of thirteen: a descriptor
\* without a domain, then twelve with a domain and listen paths of one length
InitSort ==
    /\ cfg \in Configs
    /\ apisByID = NoTable
    /\ apisHandlesByID = NoTable
    /\ router = <<>>
    /\ LET inputs ==
              UNION {[1..n -> RouteUniverse \cup {Routed(ID_b, Dom_h, P_o, FALSE)}] : n \in 0..3}
              \cup {[i \in 1..(MaxInsertion + 1) |->
                        IF i = 1 THEN Routed(ID_a, NoDomain, P_x, FALSE)
                        ELSE IF i = k THEN Routed(ID_b, Dom_h, P_o, FALSE)
                        ELSE Routed(ID_c, Dom_h, P_x, FALSE)] : k \in 2..(MaxInsertion + 1)}
       IN ldr \in {[IdleLoader EXCEPT !.input = specs] : specs \in inputs}
    /\ prev = NoHistory
    /\ unloaded = {}
    /\ req = NoRequest

\* sortSpecsByListenPath(specs)
SortSpecs ==
    /\ ldr.pc = "idle"
    /\ \E specs \in SortSlice(ldr.input) :
          ldr' = [ldr EXCEPT !.pc = "sorted", !.specs = specs]
    /\ UNCHANGED <<cfg, apisByID, apisHandlesByID, router, prev, unloaded, req>>

SpecSort == InitSort /\ [][SortSpecs]_vars

----------------------------------------------------------------------------
(* The composer specification: processSpec composing the chains of one     *)
(* descriptor, by the flags, hooks and versions of the descriptor          *)

\* A stage of a chain: the middleware, the hook list it was made for ("" for
\* a stage of the composer's own) and the name of the hook
St(mw, at, name) == [mw |-> mw, at |-> at, name |-> name]

\* a mwAppendEnabled that puts the stage first
mwAppendEnabled_Prepend(d, arr, mw) == IF mw \in d.Declines THEN arr ELSE <<mw>> \o arr

\* gw.mwAppendEnabled: the stage is appended when it is enabled for the spec;
\* d.Declines holds the stages whose EnabledForSpec says no (for the stages
\* of getStreamingMiddleware, getUpstreamBasicAuthMw and getUpstreamOAuthMw,
\* also when the getter returns nil)
mwAppendEnabled(d, arr, mw) == IF mw \in d.Declines THEN arr ELSE Append(arr, mw)

\* mwAppendEnabled for each stage of a list, in order
RECURSIVE AppendEnabled(_, _, _)
AppendEnabled(d, arr, mws) ==
    IF mws = <<>> THEN arr
    ELSE AppendEnabled(d, mwAppendEnabled(d, arr, Head(mws)), Tail(mws))

\* lines 165-171 without the raise of the maximum
TLSVersions_ClampOnly(d) ==
    [Min |-> d.SSLMinVersion,
     Max |-> IF d.SSLMaxVersion > 0 THEN 771 ELSE d.SSLMaxVersion]

\* lines 165-171: spec.Proxy.Transport.SSLMinVersion and SSLMaxVersion as
\* processSpec leaves them (uint16; tls.VersionTLS12 is 771)
TLSVersions(d) ==
    LET max1 == IF d.SSLMaxVersion > 0 THEN 771 ELSE d.SSLMaxVersion
    IN [Min |-> d.SSLMinVersion,
        Max |-> IF d.SSLMinVersion > max1 THEN d.SSLMinVersion ELSE max1]

\* a sink chosen by the override targets alone
Proxy_IgnoreNotVersioned(d) ==
    IF \E v \in d.Versions : v # ""
    THEN St("MultiTargetProxy", "", "")
    ELSE St("TykNewSingleHostReverseProxy", "", d.TargetURL)

\* lines 265-282: the proxy the chain ends in; d.Versions holds the override
\* targets of the versions of the descriptor
Proxy(d) ==
    IF \E v \in d.Versions : v # "" /\ ~d.NotVersioned
    THEN St("MultiTargetProxy", "", "")
    ELSE St("TykNewSingleHostReverseProxy", "", d.TargetURL)

\* an authentication block without the default
AuthArray_NoDefault(d) ==
    AppendEnabled(d, <<>>,
        <<St("Oauth2KeyExists", "", ""), St("ExternalOAuthMiddleware", "", ""),
          St("BasicAuthKeyIsValid", "", ""), St("HTTPSignatureValidationMiddleware", "", ""),
          St("JWTMiddleware", "", ""), St("OpenIDMW", "", "")>>)

\* lines 333-394: authArray
AuthArray(d) ==
    LET schemes ==
            AppendEnabled(d, <<>>,
                <<St("Oauth2KeyExists", "", ""), St("ExternalOAuthMiddleware", "", ""),
                  St("BasicAuthKeyIsValid", "", ""),
                  St("HTTPSignatureValidationMiddleware", "", ""),
                  St("JWTMiddleware", "", ""), St("OpenIDMW", "", "")>>)
        custom ==
            IF ~d.CustomPluginAuth THEN schemes
            ELSE IF d.Driver = "otto"
            THEN Append(schemes, St("DynamicMiddleware", "auth", "check"))
            ELSE IF d.Driver = "goplugin"
            THEN mwAppendEnabled(d, schemes, St("GoPluginMiddleware", "auth", "check"))
            ELSE mwAppendEnabled(d, schemes, St("CoProcessMiddleware", "auth", "check"))
    IN IF d.UseStandardAuth \/ Len(custom) = 0
       THEN Append(custom, St("AuthKey", "", ""))
       ELSE custom

\* the stages of a list of hooks, by the driver; the scripted stages of the
\* pre and post hooks are appended without the enabled check
RECURSIVE HookStages(_, _, _, _)
HookStages(d, arr, at, hooks) ==
    IF hooks = <<>> THEN arr
    ELSE LET h == Head(hooks)
             next ==
                IF d.Driver = "goplugin"
                THEN mwAppendEnabled(d, arr, St("GoPluginMiddleware", at, h))
                ELSE IF d.Driver # "otto" \/ at = "postauth"
                THEN mwAppendEnabled(d, arr, St("CoProcessMiddleware", at, h))
                ELSE Append(arr, St("DynamicMiddleware", at, h))
         IN HookStages(d, next, at, Tail(hooks))

\* lines 302-482: chainArray, and the handler the chain ends in
ChainArray(d) ==
    LET a1 == AppendEnabled(d, <<>>,
                <<St("VersionCheck", "", ""), St("CORSMiddleware", "", "")>>)
        a2 == HookStages(d, a1, "pre", d.Pre)
        a3 == AppendEnabled(d, a2,
                <<St("RateCheckMW", "", ""), St("IPWhiteListMiddleware", "", ""),
                  St("IPBlackListMiddleware", "", ""), St("CertificateCheckMW", "", ""),
                  St("OrganizationMonitor", "", ""), St("RequestSizeLimitMiddleware", "", ""),
                  St("MiddlewareContextVars", "", ""), St("TrackEndpointMiddleware", "", "")>>)
        a4 == IF d.UseKeylessAccess THEN a3
              ELSE AppendEnabled(d, HookStages(d, a3 \o AuthArray(d), "postauth", d.PostKeyAuth),
                      <<St("StripAuth", "", ""), St("KeyExpired", "", ""),
                        St("AccessRightsCheck", "", ""), St("GranularAccessMiddleware", "", ""),
                        St("RateLimitAndQuotaCheck", "", "")>>)
        a5 == AppendEnabled(d, a4,
                <<St("RateLimitForAPI", "", ""), St("GraphQLMiddleware", "", ""),
                  St("StreamingMiddleware", "", "")>>)
        a6 == IF d.UseKeylessAccess THEN a5
              ELSE AppendEnabled(d, a5,
                      <<St("GraphQLComplexityMiddleware", "", ""),
                        St("GraphQLGranularAccessMiddleware", "", "")>>)
        a7 == AppendEnabled(d, a6,
                <<St("UpstreamBasicAuth", "", ""), St("UpstreamOAuth", "", ""),
                  St("ValidateJSON", "", ""), St("ValidateRequest", "", ""),
                  St("PersistGraphQLOperationMiddleware", "", ""),
                  St("TransformMiddleware", "", ""), St("TransformJQMiddleware", "", ""),
                  St("TransformHeaders", "", ""), St("URLRewriteMiddleware", "", ""),
                  St("TransformMethod", "", ""), St("MockResponseMiddleware", "", ""),
                  St("RedisCacheMiddleware", "", ""), St("VirtualEndpoint", "", ""),
                  St("RequestSigning", "", ""), St("GoPluginMiddleware", "", "")>>)
    IN Append(HookStages(d, a7, "post", d.Post), St("DummyProxyHandler", "", ""))

\* a side-chain with the version check first
SimpleArray_VersionFirst(d) ==
    Append(AppendEnabled(d,
               AppendEnabled(d, <<>>,
                   <<St("VersionCheck", "", ""), St("IPWhiteListMiddleware", "", ""),
                     St("IPBlackListMiddleware", "", ""), St("OrganizationMonitor", "", "")>>)
               \o AuthArray(d),
               <<St("KeyExpired", "", ""), St("AccessRightsCheck", "", "")>>),
           St("userRatesCheck", "", ""))

\* lines 484-499: simpleArray, and the handler the side-chain ends in
SimpleArray(d) ==
    Append(AppendEnabled(d,
               AppendEnabled(d, <<>>,
                   <<St("IPWhiteListMiddleware", "", ""), St("IPBlackListMiddleware", "", ""),
                     St("OrganizationMonitor", "", ""), St("VersionCheck", "", "")>>)
               \o AuthArray(d),
               <<St("KeyExpired", "", ""), St("AccessRightsCheck", "", "")>>),
           St("userRatesCheck", "", ""))

\* a descriptor with no hook, no version and every stage enabled
PlainComposed ==
    [UseKeylessAccess |-> FALSE, UseStandardAuth |-> FALSE, CustomPluginAuth |-> FALSE,
     Driver |-> "goplugin", Pre |-> <<>>, PostKeyAuth |-> <<>>, Post |-> <<>>,
     SSLMinVersion |-> 0, SSLMaxVersion |-> 0, Versions |-> {}, NotVersioned |-> FALSE,
     TargetURL |-> "http://u", Declines |-> {}]

\* the descriptors handed to the composer: the stages that decline are all
\* the stages but at most two, or at most one stage; the TLS versions are
\* SSL 3.0 to TLS 1.3, none and the largest uint16
InitComposer ==
    /\ cfg = [EnableCustomDomains |-> TRUE, HostName |-> <<>>, EnableStrictRoutes |-> FALSE]
    /\ apisByID = NoTable
    /\ apisHandlesByID = NoTable
    /\ router = <<>>
    /\ LET inputs ==
              LET full == [PlainComposed EXCEPT !.Pre = <<"p1", "p2">>, !.PostKeyAuth = <<"k1">>,
                                                !.Post = <<"q1", "q2">>, !.CustomPluginAuth = TRUE]
                  stages == UNION {Range(ChainArray([full EXCEPT !.Driver = dr])) :
                                      dr \in {"goplugin", "otto", "grpc"}}
                  few == {{}} \cup {{x, y} : x \in stages, y \in stages}
                  flags == {[full EXCEPT !.UseKeylessAccess = k, !.UseStandardAuth = sa,
                                         !.Driver = dr, !.CustomPluginAuth = cu] :
                               k \in BOOLEAN, sa \in BOOLEAN, cu \in BOOLEAN,
                               dr \in {"goplugin", "otto", "grpc"}}
              IN {[f EXCEPT !.Declines = S] : f \in flags, S \in {{}} \cup {{x} : x \in stages}}
                 \cup {[f EXCEPT !.Declines = stages \ S] : f \in flags, S \in few}
                 \cup {[PlainComposed EXCEPT !.SSLMinVersion = mn, !.SSLMaxVersion = mx,
                                             !.Versions = vs, !.NotVersioned = nv] :
                          mn \in {0, 768, 769, 770, 771, 772, 65535},
                          mx \in {0, 768, 769, 770, 771, 772, 65535},
                          vs \in SUBSET {"", "http://v", "http://w"}, nv \in BOOLEAN}
       IN ldr \in {[IdleLoader EXCEPT !.input = d] : d \in inputs}
    /\ prev = NoHistory
    /\ unloaded = {}
    /\ req = NoRequest

\* processSpec, lines 165-171 and 265-499: the TLS versions, the proxy, the
\* main chain and, unless the descriptor is keyless, the side-chain
ProcessSpecCompose ==
    /\ ldr.pc = "idle"
    /\ ldr' = [ldr EXCEPT !.pc = "composed",
                          !.specs = [tls |-> TLSVersions(ldr.input),
                                     proxy |-> Proxy(ldr.input),
                                     authArray |-> IF ldr.input.UseKeylessAccess THEN <<>>
                                                   ELSE AuthArray(ldr.input),
                                     chainArray |-> ChainArray(ldr.input),
                                     simpleArray |-> IF ldr.input.UseKeylessAccess THEN Nil
                                                     ELSE SimpleArray(ldr.input)]]
    /\ UNCHANGED <<cfg, apisByID, apisHandlesByID, router, prev, unloaded, req>>

SpecComposer == InitComposer /\ [][ProcessSpecCompose]_vars

----------------------------------------------------------------------------
(* The arbiter specification: the for-loop of processSpec, one iteration   *)
(* at a time, for one descriptor, a collision map and a loaded table       *)

\* the most '_' the loop may have to append in the collision maps drawn; the
\* model lets the loop begin three iterations more
MaxUnderscores == 2

\* ldr.input: the descriptor and the collision map; ldr.specs: the local state
\* of the loop (the listen path of the descriptor, pathModified and the
\* iterations begun); apisByID: the table gw.getApiSpec reads.  The keys of
\* the collision map are the keys the loop can compute for the descriptor
\* and a key of another listen path, claimed once or twice when claimed.
InitArbiter ==
    /\ cfg = [EnableCustomDomains |-> TRUE, HostName |-> <<>>, EnableStrictRoutes |-> FALSE]
    /\ \E domain \in {NoDomain, Dom_h}, path \in {P_x, P_c}, loaded \in {Nil, P_x, P_c} :
          LET spec == [APIID |-> ID_a, Domain |-> domain, ListenPath |-> path]
              grown(n) == [i \in 1..n |-> "_"]
              keys == {generateDomainPath(domain, path \o <<"-">> \o ID_a \o grown(n)) :
                          n \in 0..MaxUnderscores}
                      \cup {generateDomainPath(domain, path),
                            generateDomainPath(domain, path \o <<"_">>)}
          IN /\ \E claimed \in SUBSET keys : \E apisByListen \in [claimed -> 1..2] :
                   ldr = [IdleLoader EXCEPT
                             !.pc = "arbitrate",
                             !.input = [spec |-> spec, apisByListen |-> apisByListen],
                             !.specs = [ListenPath |-> path, pathModified |-> FALSE,
                                        iterations |-> 0]]
             /\ apisByID = [NoTable EXCEPT ![ID_a] =
                               IF loaded = Nil THEN Nil
                               ELSE [spec EXCEPT !.ListenPath = loaded]]
    /\ apisHandlesByID = NoTable
    /\ router = <<>>
    /\ prev = NoHistory
    /\ unloaded = {}
    /\ req = NoRequest

\* an iteration that looks up the key of the listen path the descriptor came
\* with, not of the listen path as the loop has made it
ArbitrateStep_StaleKey ==
    /\ ldr.pc = "arbitrate"
    /\ ldr.specs.iterations < MaxUnderscores + 3
    /\ LET spec == ldr.input.spec
           listenPath == ldr.specs.ListenPath
           hash == generateDomainPath(GetAPIDomain(spec), spec.ListenPath)
           loaded == getApiSpec(spec.APIID)
           began == [ldr EXCEPT !.specs.iterations = @ + 1]
       IN ldr' = IF CountOf(ldr.input.apisByListen, hash) < 2
                 THEN [began EXCEPT !.pc = "arbitrated"]
                 ELSE IF ~ldr.specs.pathModified
                      THEN IF loaded # Nil /\ loaded.ListenPath = listenPath
                           THEN [began EXCEPT !.pc = "arbitrated"]
                           ELSE [began EXCEPT
                                    !.specs.ListenPath = listenPath \o <<"-">> \o spec.APIID,
                                    !.specs.pathModified = TRUE]
                      ELSE [began EXCEPT !.specs.ListenPath = listenPath \o <<"_">>]
    /\ UNCHANGED <<cfg, apisByID, apisHandlesByID, router, prev, unloaded, req>>

\* one iteration of the for-loop, lines 194-216: the key of the current listen
\* path is looked up; the loop breaks, or the listen path gets its suffix
ArbitrateStep ==
    /\ ldr.pc = "arbitrate"
    /\ ldr.specs.iterations < MaxUnderscores + 3
    /\ LET spec == ldr.input.spec
           listenPath == ldr.specs.ListenPath
           hash == generateDomainPath(GetAPIDomain(spec), listenPath)
           loaded == getApiSpec(spec.APIID)
           began == [ldr EXCEPT !.specs.iterations = @ + 1]
       IN ldr' = IF CountOf(ldr.input.apisByListen, hash) < 2
                 THEN [began EXCEPT !.pc = "arbitrated"]
                 ELSE IF ~ldr.specs.pathModified
                      THEN IF loaded # Nil /\ loaded.ListenPath = listenPath
                           THEN [began EXCEPT !.pc = "arbitrated"]
                           ELSE [began EXCEPT
                                    !.specs.ListenPath = listenPath \o <<"-">> \o spec.APIID,
                                    !.specs.pathModified = TRUE]
                      ELSE [began EXCEPT !.specs.ListenPath = listenPath \o <<"_">>]
    /\ UNCHANGED <<cfg, apisByID, apisHandlesByID, router, prev, unloaded, req>>

\* the goroutine that loads keeps running: an iteration that can be taken is
\* taken
SpecArbiter == InitArbiter /\ [][ArbitrateStep]_vars /\ WF_vars(ArbitrateStep)

----------------------------------------------------------------------------
(* The target specification: descriptors whose own target URLs are         *)
(* internal-scheme and point at each other, with the scheduling of the     *)
(* goroutines                                                              *)

\* the URLs of the requests: not rewritten, or rewritten to loop to the API
\* itself with a loop limit of 1
TargetURLs ==
    {[Scheme |-> "http", Host |-> <<>>, LoopLimit |-> 0],
     [Scheme |-> "tyk", Host |-> Self, LoopLimit |-> 1]}

\* the loader loads descriptors each of which proxies upstream or to the other
NextTarget ==
    \/ LoadAppsBuild(DescriptorSets(
              {Named(ID_a, <<"a">>, <<"1">>, P_x, Upstream),
               Named(ID_a, <<"a">>, <<"1">>, P_x, URL("tyk", ID_b, TRUE)),
               Named(ID_b, <<"b">>, <<"2">>, P_c, Upstream),
               Named(ID_b, <<"b">>, <<"2">>, P_c, URL("tyk", ID_a, TRUE))}), {FALSE})
    \/ LoadAppsSwap
    \/ LoadAppsLock
    \/ LoadAppsInstall
    \/ LoadAppsUnload
    \/ LoadAppsReturn
    \/ ReqStart
    \/ ReqServeHTTP(TargetURLs)
    \/ ReqRLock
    \/ ReqFinish

\* The goroutine of the request and the goroutine of the loader keep running:
\* a handler that can go on does, a loader that has begun a load ends it, and
\* a request that waits in RLock gets the lock once the loader unlocks
\* (sync.RWMutex wakes the readers that wait when the writer unlocks).
SpecTarget ==
    /\ InitReq
    /\ [][NextTarget]_vars
    /\ WF_vars(ReqServeHTTP(TargetURLs))
    /\ SF_vars(ReqRLock)
    /\ WF_vars(LoadAppsSwap)
    /\ WF_vars(LoadAppsLock)
    /\ WF_vars(LoadAppsInstall)
    /\ WF_vars(LoadAppsUnload)
    /\ WF_vars(LoadAppsReturn)

----------------------------------------------------------------------------
(* The adapter specification: the OpenAPI adapter importing one document   *)

\* A piece of a path or of a URL: kind "lit" is the text itself, "param" a
\* path parameter of the document ({name}), "arg" a reference to an argument
\* of the GraphQL field ({{.arguments.name}})
Seg(kind, name) == [kind |-> kind, name |-> name]

\* An operation of a document: the path it is under, its method, the words of
\* its operationId and the names of its parameters in the query
Operation(path, method, operationId, query) ==
    [path |-> path, method |-> method, operationId |-> operationId, query |-> query]

\* The document of the test: title, server URL, and the four operations
petstoreExpandedOpenAPI3 ==
    [title |-> "Swagger Petstore",
     server |-> "http://petstore.swagger.io/api",
     operations |->
        {Operation(<<Seg("lit", "pets")>>, "GET", <<"findPets">>, {"tags", "limit"}),
         Operation(<<Seg("lit", "pets")>>, "POST", <<"addPet">>, {}),
         Operation(<<Seg("lit", "pets"), Seg("param", "id")>>, "GET",
                   <<"find", "pet", "by", "id">>, {}),
         Operation(<<Seg("lit", "pets"), Seg("param", "id")>>, "DELETE",
                   <<"deletePet">>, {})}]

\* What the test requires of the API definition imported from that document:
\* the name, the flags, the execution mode, and of the engine configuration
\* the field configurations (type and field name) and the data sources (kind,
\* name, root type and field, method and URL).  A URL is kept as its base,
\* the pieces of its path and the parameters of its query; a field name as
\* the pieces whose concatenation it is.
expectedOpenAPIGraphQLConfig ==
    LET url(path, query) ==
            [base |-> "http://petstore.swagger.io/api", path |-> path, query |-> query]
        source(type, name, method, u) ==
            [kind |-> "REST", name |-> name, root_type |-> type, root_field |-> name,
             method |-> method, url |-> u]
        findPetById == <<"find", "Pet", "By", "Id">>
    IN [Name |-> "Swagger Petstore",
        Active |-> TRUE,
        Enabled |-> TRUE,
        ExecutionMode |-> "executionEngine",
        field_configs |->
           {[type_name |-> "Mutation", field_name |-> <<"addPet">>],
            [type_name |-> "Mutation", field_name |-> <<"deletePet">>],
            [type_name |-> "Query", field_name |-> findPetById],
            [type_name |-> "Query", field_name |-> <<"findPets">>]},
        data_sources |->
           {source("Mutation", <<"addPet">>, "POST", url(<<Seg("lit", "pets")>>, {})),
            source("Mutation", <<"deletePet">>, "DELETE",
                   url(<<Seg("lit", "pets"), Seg("arg", "id")>>, {})),
            source("Query", findPetById, "GET",
                   url(<<Seg("lit", "pets"), Seg("arg", "id")>>, {})),
            source("Query", <<"findPets">>, "GET",
                   url(<<Seg("lit", "pets")>>,
                       {<<"limit", Seg("arg", "limit")>>, <<"tags", Seg("arg", "tags")>>}))}]

\* an adapter that makes every operation a field of Query
Import_AllQuery(doc) ==
    LET capital == [pet |-> "Pet", by |-> "By", id |-> "Id"]
        fieldName(op) ==
            [i \in 1..Len(op.operationId) |->
                IF i = 1 THEN op.operationId[i] ELSE capital[op.operationId[i]]]
        rootType(op) == "Query"
        urlOf(op) ==
            [base |-> doc.server,
             path |-> [i \in 1..Len(op.path) |->
                          IF op.path[i].kind = "param"
                          THEN Seg("arg", op.path[i].name) ELSE op.path[i]],
             query |-> {<<q, Seg("arg", q)>> : q \in op.query}]
    IN [Name |-> doc.title,
        Active |-> TRUE,
        Enabled |-> TRUE,
        ExecutionMode |-> "executionEngine",
        field_configs |->
           {[type_name |-> rootType(op), field_name |-> fieldName(op)] :
               op \in doc.operations},
        data_sources |->
           {[kind |-> "REST", name |-> fieldName(op), root_type |-> rootType(op),
             root_field |-> fieldName(op), method |-> op.method, url |-> urlOf(op)] :
               op \in doc.operations}]

\* OpenAPIAdapter.Import: the API definition made from a document.  The name
\* of the field of an operation is its operationId in camel case; its root
\* type is Query for GET and Mutation otherwise; the URL of its data source is
\* the server URL and the path, with an argument of the field for each path
\* parameter and for each parameter in the query.
Import(doc) ==
    LET capital == [pet |-> "Pet", by |-> "By", id |-> "Id"]
        fieldName(op) ==
            [i \in 1..Len(op.operationId) |->
                IF i = 1 THEN op.operationId[i] ELSE capital[op.operationId[i]]]
        rootType(op) == IF op.method = "GET" THEN "Query" ELSE "Mutation"
        urlOf(op) ==
            [base |-> doc.server,
             path |-> [i \in 1..Len(op.path) |->
                          IF op.path[i].kind = "param"
                          THEN Seg("arg", op.path[i].name) ELSE op.path[i]],
             query |-> {<<q, Seg("arg", q)>> : q \in op.query}]
    IN [Name |-> doc.title,
        Active |-> TRUE,
        Enabled |-> TRUE,
        ExecutionMode |-> "executionEngine",
        field_configs |->
           {[type_name |-> rootType(op), field_name |-> fieldName(op)] :
               op \in doc.operations},
        data_sources |->
           {[kind |-> "REST", name |-> fieldName(op), root_type |-> rootType(op),
             root_field |-> fieldName(op), method |-> op.method, url |-> urlOf(op)] :
               op \in doc.operations}]

\* the documents: any of the operations of the test's document and of three
\* more, under one of two titles and servers
InitAdapter ==
    /\ cfg = [EnableCustomDomains |-> TRUE, HostName |-> <<>>, EnableStrictRoutes |-> FALSE]
    /\ apisByID = NoTable
    /\ apisHandlesByID = NoTable
    /\ router = <<>>
    /\ \E ops \in SUBSET (petstoreExpandedOpenAPI3.operations
                          \cup {Operation(<<Seg("lit", "pets"), Seg("param", "id")>>,
                                          "PUT", <<"updatePet">>, {}),
                                Operation(<<Seg("lit", "owners"), Seg("param", "owner"),
                                            Seg("lit", "pets")>>,
                                          "GET", <<"listOwnerPets">>, {"limit"}),
                                Operation(<<Seg("lit", "owners")>>,
                                          "PATCH", <<"patchOwners">>, {"id"})}),
             doc \in {petstoreExpandedOpenAPI3,
                      [title |-> "Owners", server |-> "https://owners.example/v1",
                       operations |-> {}]} :
          ldr = [IdleLoader EXCEPT !.input = [doc EXCEPT !.operations = ops]]
    /\ prev = NoHistory
    /\ unloaded = {}
    /\ req = NoRequest

\* adapter.Import() on the document
ImportDocument ==
    /\ ldr.pc = "idle"
    /\ ldr' = [ldr EXCEPT !.pc = "imported", !.specs = Import(ldr.input)]
    /\ UNCHANGED <<cfg, apisByID, apisHandlesByID, router, prev, unloaded, req>>

SpecAdapter == InitAdapter /\ [][ImportDocument]_vars

----------------------------------------------------------------------------
(* The versions specification: descriptors that list other descriptors     *)
(* among their versions                                                    *)

\* A descriptor with version links: the api ids of its versions, which are
\* part of its declared content, and a base id, empty as declared
Versioned(id, path, versions) ==
    LET d == Plain(id, NoDomain, path, Upstream, 1)
    IN [d EXCEPT !.Checksum = Append(@, versions)]
       @@ [Versions |-> versions, BaseID |-> <<>>]

\* a and c list b among their versions or not; b has a listen path that is
\* valid or not
NextVersions ==
    \/ LoadAppsBuild(DescriptorSets({Versioned(ID_a, P_x, {ID_b}),
                                     Versioned(ID_a, P_x, {}),
                                     Versioned(ID_b, P_c, {}),
                                     Versioned(ID_b, P_bad, {}),
                                     Versioned(ID_c, P_xb, {ID_b}),
                                     Versioned(ID_c, P_xb, {})}), {FALSE})
    \/ LoadAppsSwap
    \/ LoadAppsLock
    \/ LoadAppsInstall
    \/ LoadAppsUnload
    \/ LoadAppsReturn

SpecVersions == Init /\ [][NextVersions]_vars

----------------------------------------------------------------------------
(* The functions specification: functions of the loader and of the OAS     *)
(* conversion applied to one input each                                    *)

\* configureAuthAndOrgStores: the three stores it returns and the flag of the
\* gateway configuration after it
configureAuthAndOrgStores(gs, spec, globalConf) ==
    LET rpcAuth == spec.AuthProvider.StorageEngine = "rpc"
        rpcSession == spec.SessionProvider.StorageEngine = "rpc"
    IN [authStore |-> IF spec.AuthProvider.StorageEngine = "ldap" THEN "LDAPStorageHandler"
                      ELSE IF rpcAuth THEN gs.rpcAuthStore ELSE gs.redisStore,
        orgStore |-> IF rpcAuth THEN gs.rpcOrgStore ELSE gs.redisOrgStore,
        sessionStore |-> IF rpcSession THEN gs.rpcAuthStore ELSE gs.redisStore,
        EnforceOrgDataAge |-> globalConf.EnforceOrgDataAge \/ rpcAuth]

\* prepareStorage: the stores of a load
generalStores ==
    [redisStore |-> "redisStore", redisOrgStore |-> "redisOrgStore",
     healthStore |-> "healthStore", rpcAuthStore |-> "rpcAuthStore",
     rpcOrgStore |-> "rpcOrgStore"]

\* strings.Join(segments, "/"), after a leading "/" when the path is rooted
RECURSIVE JoinSlash(_, _)
JoinSlash(segments, rooted) ==
    IF segments = <<>> THEN <<>>
    ELSE (IF rooted THEN <<"/">> ELSE <<>>) \o Head(segments)
         \o JoinSlash(Tail(segments), TRUE)

\* fillOAuthScheme: the flows of the security scheme after it.  A flow is
\* kept as whether its pointer is set; accessTypes is the set of the entries
\* of the slice.
fillOAuthScheme(flows, accessTypes) ==
    LET f == IF flows = Nil
             THEN [AuthorizationCode |-> FALSE, ClientCredentials |-> FALSE,
                   Password |-> FALSE, Implicit |-> FALSE]
             ELSE flows
    IN [AuthorizationCode |-> f.AuthorizationCode \/ "authorization_code" \in accessTypes,
        ClientCredentials |-> f.ClientCredentials \/ "client_credentials" \in accessTypes,
        Password |-> f.Password \/ "password" \in accessTypes,
        Implicit |-> f.Implicit \/ "implicit" \in accessTypes]

\* fillOAuth for a definition that has an OAuth auth config with a name, a
\* disabled header and nothing else set: the flows of the scheme and the
\* entry of the Tyk security schemes, which is nil when all its fields are empty
fillOAuth(s, api) ==
    LET oauth == [Enabled |-> api.UseOauth2,
                  RefreshToken |-> "refresh_token" \in api.Oauth2Meta.AllowedAccessTypes]
    IN [flows |-> fillOAuthScheme(s.flows, api.Oauth2Meta.AllowedAccessTypes),
        oauth |-> IF ~oauth.Enabled /\ ~oauth.RefreshToken THEN Nil ELSE oauth]

\* extractOAuthSchemeTo: the allowed access types after it
extractOAuthSchemeTo(s, allowedAccessTypes) ==
    IF s.flows = Nil THEN allowedAccessTypes
    ELSE allowedAccessTypes
         \cup (IF s.flows.AuthorizationCode THEN {"authorization_code"} ELSE {})
         \cup (IF s.flows.ClientCredentials THEN {"client_credentials"} ELSE {})
         \cup (IF s.flows.Password THEN {"password"} ELSE {})
         \cup (IF s.flows.Implicit THEN {"implicit"} ELSE {})

\* extractOAuthTo: the definition after it
extractOAuthTo(s, api) ==
    LET a == IF s.oauth # Nil
             THEN [UseOauth2 |-> s.oauth.Enabled,
                   Oauth2Meta |-> [AllowedAccessTypes |->
                                      IF s.oauth.RefreshToken THEN {"refresh_token"} ELSE {}]]
             ELSE api
    IN [a EXCEPT !.Oauth2Meta.AllowedAccessTypes =
                     extractOAuthSchemeTo(s, a.Oauth2Meta.AllowedAccessTypes)]

\* fillAPIKeyScheme: the auth config and the security scheme after it
fillAPIKeyScheme(ac, ref) ==
    IF ref.In = "header" \/ (ref.In = "" /\ ~ac.DisableHeader)
    THEN [ac |-> [ac EXCEPT !.AuthHeaderName = "", !.DisableHeader = TRUE],
          ref |-> [In |-> "header", Name |-> ac.AuthHeaderName]]
    ELSE IF ref.In = "query" \/ (ref.In = "" /\ ac.UseParam)
    THEN [ac |-> [ac EXCEPT !.ParamName = "", !.UseParam = FALSE],
          ref |-> [In |-> "query", Name |-> ac.ParamName]]
    ELSE IF ref.In = "cookie" \/ (ref.In = "" /\ ac.UseCookie)
    THEN [ac |-> [ac EXCEPT !.CookieName = "", !.UseCookie = FALSE],
          ref |-> [In |-> "cookie", Name |-> ac.CookieName]]
    ELSE [ac |-> ac, ref |-> [In |-> "", Name |-> ""]]

\* extractAPIKeySchemeTo: the auth config after it
extractAPIKeySchemeTo(ac, ref) ==
    IF ref.In = "header"
    THEN [ac EXCEPT !.AuthHeaderName = ref.Name, !.DisableHeader = FALSE]
    ELSE IF ref.In = "query"
    THEN [ac EXCEPT !.ParamName = ref.Name, !.UseParam = TRUE]
    ELSE IF ref.In = "cookie"
    THEN [ac EXCEPT !.CookieName = ref.Name, !.UseCookie = TRUE]
    ELSE ac

\* the inputs: the storage engines of a descriptor and the flag of the
\* gateway configuration; or a listen path of up to MaxSegments segments; or
\* a classic definition with its allowed access types and an OAS document,
\* fresh or filled before from an earlier definition; or the auth config of
\* token auth and the location of the security scheme of its name
MaxSegments == 3

InitFunctions ==
    /\ cfg = [EnableCustomDomains |-> TRUE, HostName |-> <<>>, EnableStrictRoutes |-> FALSE]
    /\ apisByID = NoTable
    /\ apisHandlesByID = NoTable
    /\ router = <<>>
    /\ LET engines == {"", "redis", "ldap", "rpc"}
           segment == {<<>>, <<"a">>, <<"b", "c">>, <<"{", "x", "}">>,
                       <<"{", "y", "z", "}">>, <<"{", "}">>, <<"{", "a">>, <<"a", "}">>}
           accessType == {"authorization_code", "client_credentials", "password",
                          "implicit", "refresh_token"}
           inputs ==
              {[fn |-> "configureAuthAndOrgStores",
                spec |-> [AuthProvider |-> [StorageEngine |-> a],
                          SessionProvider |-> [StorageEngine |-> e]],
                globalConf |-> [EnforceOrgDataAge |-> f]] :
                  a \in engines, e \in engines, f \in BOOLEAN}
              \cup {[fn |-> "listenPathLength", segments |-> segs, rooted |-> r] :
                       segs \in UNION {[1..n -> segment] : n \in 1..MaxSegments},
                       r \in BOOLEAN}
              \cup {[fn |-> "fillOAuth", fresh |-> e = <<>>,
                      earlier |-> [UseOauth2 |-> FALSE,
                                   Oauth2Meta |-> [AllowedAccessTypes |->
                                                      IF e = <<>> THEN {} ELSE e[1]]],
                      api |-> [UseOauth2 |-> u, Oauth2Meta |-> [AllowedAccessTypes |-> t]]] :
                       u \in BOOLEAN,
                       e \in {<<>>} \cup {<<x>> : x \in SUBSET accessType},
                       t \in SUBSET accessType}
              \cup {[fn |-> "fillAPIKeyScheme",
                      ac |-> [DisableHeader |-> dh, AuthHeaderName |-> hn,
                              UseParam |-> up, ParamName |-> pn,
                              UseCookie |-> uc, CookieName |-> cn],
                      ref |-> [In |-> at, Name |-> ""]] :
                       dh \in BOOLEAN, up \in BOOLEAN, uc \in BOOLEAN,
                       hn \in {"", "Authorization"}, pn \in {"", "key"},
                       cn \in {"", "sid"}, at \in {"", "header", "query", "cookie"}}
       IN ldr \in {[IdleLoader EXCEPT !.input = in] : in \in inputs}
    /\ prev = NoHistory
    /\ unloaded = {}
    /\ req = NoRequest

\* line 228: processSpec binds the stores of the descriptor
ConfigureStores ==
    /\ ldr.pc = "idle"
    /\ ldr.input.fn = "configureAuthAndOrgStores"
    /\ ldr' = [ldr EXCEPT !.pc = "bound",
                          !.specs = configureAuthAndOrgStores(generalStores, ldr.input.spec,
                                                              ldr.input.globalConf)]
    /\ UNCHANGED <<cfg, apisByID, apisHandlesByID, router, prev, unloaded, req>>

\* line 958: the less function measures a listen path
MeasureListenPath ==
    /\ ldr.pc = "idle"
    /\ ldr.input.fn = "listenPathLength"
    /\ ldr' = [ldr EXCEPT !.pc = "measured",
                          !.specs = listenPathLength(JoinSlash(ldr.input.segments,
                                                               ldr.input.rooted))]
    /\ UNCHANGED <<cfg, apisByID, apisHandlesByID, router, prev, unloaded, req>>

\* OAS.Fill: fillOAuth on the document, which an earlier fill may have left
FillOAuth ==
    /\ ldr.pc = "idle"
    /\ ldr.input.fn = "fillOAuth"
    /\ LET empty == [flows |-> Nil, oauth |-> Nil]
           s == IF ldr.input.fresh THEN empty ELSE fillOAuth(empty, ldr.input.earlier)
       IN ldr' = [ldr EXCEPT !.pc = "filled", !.specs = fillOAuth(s, ldr.input.api)]
    /\ UNCHANGED <<cfg, apisByID, apisHandlesByID, router, prev, unloaded, req>>

\* OAS.ExtractTo: extractOAuthTo into a new definition
ExtractOAuth ==
    /\ ldr.pc = "filled"
    /\ ldr' = [ldr EXCEPT !.pc = "extracted",
                          !.specs = extractOAuthTo(ldr.specs,
                                       [UseOauth2 |-> FALSE,
                                        Oauth2Meta |-> [AllowedAccessTypes |-> {}]])]
    /\ UNCHANGED <<cfg, apisByID, apisHandlesByID, router, prev, unloaded, req>>

\* fillToken: fillAPIKeyScheme on a copy of the auth config
FillAPIKeyScheme ==
    /\ ldr.pc = "idle"
    /\ ldr.input.fn = "fillAPIKeyScheme"
    /\ ldr' = [ldr EXCEPT !.pc = "moved",
                          !.specs = fillAPIKeyScheme(ldr.input.ac, ldr.input.ref)]
    /\ UNCHANGED <<cfg, apisByID, apisHandlesByID, router, prev, unloaded, req>>

\* extractTokenTo: extractAPIKeySchemeTo on the auth config that holds the
\* locations the fill left outside the scheme
ExtractAPIKeyScheme ==
    /\ ldr.pc = "moved"
    /\ ldr' = [ldr EXCEPT !.pc = "restored",
                          !.specs = [ref |-> ldr.specs.ref, filled |-> ldr.specs.ac,
                                     ac |-> extractAPIKeySchemeTo(ldr.specs.ac,
                                                                  ldr.specs.ref)]]
    /\ UNCHANGED <<cfg, apisByID, apisHandlesByID, router, prev, unloaded, req>>

NextFunctions ==
    \/ ConfigureStores
    \/ MeasureListenPath
    \/ FillOAuth
    \/ ExtractOAuth
    \/ FillAPIKeyScheme
    \/ ExtractAPIKeyScheme

SpecFunctions == InitFunctions /\ [][NextFunctions]_vars

----------------------------------------------------------------------------
(* The internal-API specification: an internal descriptor next to routed   *)
(* ones, and requests that loop to it by api id and by name                *)

InitInt ==
    /\ cfg \in {c \in Configs : c.EnableCustomDomains}
    /\ apisByID = NoTable
    /\ apisHandlesByID = NoTable
    /\ router = <<>>
    /\ ldr = IdleLoader
    /\ prev = NoHistory
    /\ unloaded = {}
    /\ req = NoRequest

\* the URLs of the requests: not rewritten, or rewritten to loop to the api
\* id or to the name of the internal descriptor, with a loop limit of 1
NextInt ==
    \/ LoadAppsBuild(DescriptorSets(({Decl(ID_c, <<"Z">>, <<"3">>, NoDomain, P_c, Upstream, TRUE, FALSE, "", 1),
                                      Decl(ID_c, <<"Z">>, <<"3">>, NoDomain, <<>>, Upstream, TRUE, FALSE, "", 1),
                                      Named(ID_a, <<"a">>, <<"1">>, P_x, Upstream),
                                      Named(ID_a, <<"B">>, <<"1">>, P_x, Upstream),
                                      Named(ID_b, <<"z">>, <<"2">>, P_xb, Upstream),
                                      Named(ID_b, <<"#", "c">>, <<"2">>, P_xb, Upstream)})), {FALSE})
    \/ LoadAppsSwap
    \/ LoadAppsLock
    \/ LoadAppsInstall
    \/ LoadAppsUnload
    \/ LoadAppsReturn
    \/ ReqStart
    \/ ReqServeHTTP(
          {[Scheme |-> "http", Host |-> <<>>, LoopLimit |-> 0]}
          \cup {[Scheme |-> "tyk", Host |-> h, LoopLimit |-> 1] : h \in {ID_c, <<"z">>}})
    \/ ReqRLock
    \/ ReqFinish

SpecInt == InitInt /\ [][NextInt]_vars

----------------------------------------------------------------------------
(* The validation specification: loads of descriptors that are invalid,    *)
(* internal, keyless, or on which the composer panics, next to valid ones  *)

Variant(id, path, target, internal, keyless, proto) ==
    Decl(id, id, id, NoDomain, path, target, internal, keyless, proto, 1)

InitVal ==
    /\ cfg \in {c \in Configs : c.EnableCustomDomains}
    /\ apisByID = NoTable
    /\ apisHandlesByID = NoTable
    /\ router = <<>>
    /\ ldr = IdleLoader
    /\ prev = NoHistory
    /\ unloaded = {}
    /\ req = NoRequest

NextVal ==
    \/ LoadAppsBuild(DescriptorSets(({Variant(ID_a, P_x, Upstream, FALSE, FALSE, ""),
                                      Variant(ID_a, P_x, Upstream, FALSE, TRUE, "")}
                                     \cup {Variant(ID_b, <<>>, Upstream, FALSE, FALSE, ""),
                                           Variant(ID_b, <<>>, Upstream, FALSE, FALSE, "h2c"),
                                           Variant(ID_b, <<"/", " ">>, Upstream, FALSE, FALSE, "https"),
                                           Variant(ID_b, <<"/", "\t">>, Upstream, FALSE, FALSE, "http"),
                                           Variant(ID_b, P_xb, URL("", <<>>, FALSE), FALSE, FALSE, "h2c")}
                                     \cup {WithoutTykExtension(Variant(ID_c, P_x, Upstream, FALSE, FALSE, "")),
                                           Variant(ID_c, P_x, Upstream, TRUE, FALSE, ""),
                                           Variant(ID_c, P_bad, Upstream, FALSE, FALSE, "")})), {FALSE})
    \/ LoadAppsSwap
    \/ LoadAppsLock
    \/ LoadAppsInstall
    \/ LoadAppsUnload
    \/ LoadAppsReturn

SpecVal == InitVal /\ [][NextVal]_vars

----------------------------------------------------------------------------
(* Properties of a completed reload.  They are stated where loadApps has   *)
(* done its work and not yet returned (ldr.pc = "done"): the live tables   *)
(* and routes are those of the new load, prev holds those of the load      *)
(* before, ldr.input the specs the load was given.                         *)

LoadDone == ldr.pc = "done"

\* the routes of the user-defined listen paths
ListenRoutes(rt) == {rt[k] : k \in {j \in 1..Len(rt) : rt[j].Listen}}

\* the listen paths an api id is registered under
RegisteredPaths(rt, id) == {r.Prefix : r \in {q \in ListenRoutes(rt) : q.APIID = id}}

InputOf(id) == {sp \in ldr.input : sp.APIID = id}

\* s is p followed by nothing but '_'
IsUnderscored(s, p) ==
    /\ HasPrefix(s, p)
    /\ \A k \in (Len(p) + 1)..Len(s) : s[k] = "_"

\* C1 (as claimed): after a load, two distinct registered descriptors never
\* share the pair (effective host, effective listen path).
C1_PathUniqueness ==
    LoadDone =>
        \A r1, r2 \in ListenRoutes(router) :
            r1.APIID # r2.APIID => <<r1.Host, r1.Prefix>> # <<r2.Host, r2.Prefix>>

\* two specs of the input, not loaded before, that declare the same host and path
NewColliders(A, B) ==
    /\ A.APIID # B.APIID
    /\ prev.apisByID[A.APIID] = Nil /\ prev.apisByID[B.APIID] = Nil
    /\ GetAPIDomain(A) = GetAPIDomain(B)
    /\ A.ListenPath = B.ListenPath

\* C2 (as claimed): of two new descriptors declaring the same host and listen
\* path P, exactly one is registered at P and the other at P-<its own api_id>.
C2_ExactlyOneKeepsPath ==
    LoadDone =>
        \A A, B \in ldr.input :
            NewColliders(A, B) =>
                \E K, O \in {A, B} :
                    /\ K # O
                    /\ RegisteredPaths(router, K.APIID) = {A.ListenPath}
                    /\ RegisteredPaths(router, O.APIID)
                         = {A.ListenPath \o <<"-">> \o O.APIID}

\* C2 (amended): of two new descriptors declaring the same host and listen
\* path P, neither is registered at P; each one that is registered has the
\* listen path P-<its own api_id>, followed by zero or more '_'.
C2_BothSuffixed ==
    LoadDone =>
        \A A, B \in ldr.input :
            NewColliders(A, B) =>
                \A p \in RegisteredPaths(router, A.APIID) :
                    /\ p # A.ListenPath
                    /\ IsUnderscored(p, A.ListenPath \o <<"-">> \o A.APIID)

\* C2 witness: a completed load in which two new descriptors declared the
\* same host and path and both were registered.
C2_Witness ==
    /\ LoadDone
    /\ \E A, B \in ldr.input :
          /\ NewColliders(A, B)
          /\ RegisteredPaths(router, A.APIID) # {}
          /\ RegisteredPaths(router, B.APIID) # {}

\* C3 (as claimed): a descriptor loaded with path P that comes again with P
\* stays at P, and another descriptor now claiming P on the same host is the
\* one that gets a suffix.
C3_Stability ==
    LoadDone =>
        \A X, Y \in ldr.input :
            (/\ X.APIID # Y.APIID
             /\ prev.apisByID[X.APIID] # Nil
             /\ prev.apisByID[X.APIID].ListenPath = X.ListenPath
             /\ RegisteredPaths(prev.router, X.APIID) = {X.ListenPath}
             /\ GetAPIDomain(X) = GetAPIDomain(Y)
             /\ Y.ListenPath = X.ListenPath) =>
                /\ RegisteredPaths(router, X.APIID) = {X.ListenPath}
                /\ X.ListenPath \notin RegisteredPaths(router, Y.APIID)

\* C4 (as claimed): loading the same descriptor set again leaves every
\* descriptor registered under the same host and path with the same chain,
\* and unloads nothing.
C4_Idempotent ==
    (LoadDone /\ (/\ \A id \in IDs : (prev.apisByID[id] # Nil) <=> (InputOf(id) # {})
                  /\ \A sp \in ldr.input : ~shouldReloadSpec(prev.apisByID[sp.APIID], sp))) =>
        /\ ListenRoutes(router) = ListenRoutes(prev.router)
        /\ apisHandlesByID = prev.apisHandlesByID
        /\ unloaded = {}

\* C5: a descriptor equal to the loaded one keeps the very same chain object
\* in the chain table and the previously loaded descriptor in the descriptor
\* table.
C5_ChainReuse ==
    ldr.pc \in {"installed", "done"} =>
        \A sp \in ldr.input :
            ~shouldReloadSpec(prev.apisByID[sp.APIID], sp) =>
                /\ apisHandlesByID[sp.APIID] = prev.apisHandlesByID[sp.APIID]
                /\ apisByID[sp.APIID] = prev.apisByID[sp.APIID]

\* C5 witness: a reload was given a new object equal to a loaded descriptor
\* that has a chain, next to a descriptor that changed.
C5_Witness ==
    /\ LoadDone
    /\ \E sp, ch \in ldr.input :
          /\ sp.obj = NewObj
          /\ ~shouldReloadSpec(prev.apisByID[sp.APIID], sp)
          /\ prev.apisHandlesByID[sp.APIID] # Nil
          /\ apisHandlesByID[sp.APIID] # Nil
          /\ prev.apisByID[ch.APIID] # Nil
          /\ shouldReloadSpec(prev.apisByID[ch.APIID], ch)

\* C6: the descriptors unloaded by a reload are exactly the loaded ones that
\* are absent from the new set or changed; none of them is in the live table;
\* and Unload runs only after the new routes and tables are installed.
C6_UnloadExact ==
    /\ LoadDone => unloaded = ({prev.apisByID[id] :
                                   id \in {x \in IDs :
                                             /\ prev.apisByID[x] # Nil
                                             /\ \/ InputOf(x) = {}
                                                \/ \E sp \in InputOf(x) : shouldReloadSpec(prev.apisByID[x], sp)}})
    /\ \A u \in unloaded : \A id \in IDs : apisByID[id] # u
    /\ unloaded # {} =>
          /\ ldr.pc = "done"
          /\ router = ldr.muxer
          /\ apisByID = ldr.tmpSpecRegister
          /\ apisHandlesByID = ldr.tmpSpecHandles

\* C6 witness: a reload that dropped one descriptor, replaced a changed one
\* and kept an unchanged one.
C6_Witness ==
    /\ LoadDone
    /\ \E g, c, k \in IDs :
          /\ prev.apisByID[g] # Nil /\ InputOf(g) = {} /\ prev.apisByID[g] \in unloaded
          /\ prev.apisByID[c] # Nil /\ InputOf(c) # {} /\ prev.apisByID[c] \in unloaded
          /\ prev.apisByID[k] # Nil /\ apisByID[k] = prev.apisByID[k]

\* C24: after a load of the empty descriptor set the live router has no route
\* of an API, so every request gets the 404 of the router that carries the
\* control API; the table of the descriptors and the table of the chains are
\* empty; and every descriptor that was loaded before has been unloaded.
C24_EmptyLoad ==
    (LoadDone /\ ldr.input = {}) =>
        /\ router = <<>>
        /\ \A host \in RouteHosts, path \in RoutePaths :
              Resolve(router, host, path).kind = "router404"
        /\ apisByID = NoTable
        /\ apisHandlesByID = NoTable
        /\ unloaded = {prev.apisByID[id] : id \in {x \in IDs : prev.apisByID[x] # Nil}}

\* C24 witness: the empty set was loaded over two loaded descriptors with
\* routes.
C24_Witness ==
    /\ LoadDone
    /\ ldr.input = {}
    /\ prev.router # <<>>
    /\ Cardinality({x \in IDs : prev.apisByID[x] # Nil}) >= 2
    /\ Cardinality(unloaded) >= 2

----------------------------------------------------------------------------
(* Properties of validation and of the composer                            *)

\* the descriptors the validator is to reject
Rejectable(sp) ==
    /\ IsHTTPFamily(sp)
    /\ \/ sp.ListenPath = <<>>
       \/ \E i \in 1..Len(sp.ListenPath) : sp.ListenPath[i] \in {" ", "\t"}
       \/ ~sp.TargetURL.Parses

\* the descriptors a load is to register: valid, not internal, composable
Loadable(sp) ==
    /\ IsHTTPFamily(sp)
    /\ ~Rejectable(sp)
    /\ ~ValidatePathFails(sp.ListenPath)
    /\ ~sp.Internal
    /\ ~sp.InvalidOAS

\* the routes of the router that lead to the chain of an api id
RoutesOf(rt, id) == {k \in 1..Len(rt) : rt[k].APIID = id}

IsRegistered(id) ==
    /\ apisHandlesByID[id] # Nil
    /\ ~apisHandlesByID[id].Skip
    /\ RoutesOf(router, id) # {}

\* C12 (as claimed): a descriptor of the HTTP family with an empty listen
\* path, a listen path with whitespace or a target URL that does not parse
\* gets a chain object with skip = true and no route, stays in the descriptor
\* table, and every other descriptor of the set is still loaded.
C12_InvalidSkipped ==
    LoadDone =>
        \A sp \in ldr.input :
            Rejectable(sp) =>
                /\ apisHandlesByID[sp.APIID] # Nil
                /\ apisHandlesByID[sp.APIID].Skip
                /\ RoutesOf(router, sp.APIID) = {}
                /\ apisByID[sp.APIID] # Nil
                /\ apisByID[sp.APIID].Checksum = sp.Checksum
                /\ \A o \in ldr.input :
                      (o.APIID # sp.APIID /\ Loadable(o)) => IsRegistered(o.APIID)

ChainsOf(handles) == {handles[id] : id \in IDs} \ {Nil}

\* C15: a chain object that is open has no rate-limit handler, and a chain
\* object has a rate-limit handler only if its descriptor is not keyless.
C15_OpenNoRateLimit ==
    /\ \A ch \in (ChainsOf(apisHandlesByID) \cup ChainsOf(ldr.tmpSpecHandles)
                      \cup {router[k].Chain : k \in 1..Len(router)}) : ch.Open => ~ch.RateLimitChain
    /\ \A id \in IDs :
          (apisHandlesByID[id] # Nil /\ apisHandlesByID[id].RateLimitChain) =>
              (apisByID[id] # Nil /\ ~apisByID[id].UseKeylessAccess)

\* C15 witness: a completed load that made an open chain for a keyless
\* descriptor and a chain with a rate-limit handler for another.
C15_Witness ==
    /\ LoadDone
    /\ \E k, n \in IDs :
          /\ apisHandlesByID[k] # Nil /\ apisHandlesByID[k].obj = NewObj
          /\ apisByID[k].UseKeylessAccess /\ apisHandlesByID[k].Open
          /\ apisHandlesByID[n] # Nil /\ apisHandlesByID[n].obj = NewObj
          /\ apisHandlesByID[n].RateLimitChain

----------------------------------------------------------------------------
(* Properties of the routes                                                *)

\* C16 (as claimed): every route of an API that is not open has a rate-limit
\* side-chain mounted at <prefix>/tyk/rate-limits/, and a request to that
\* path is served by a rate-limit side-chain, never by a main handler.
C16_RateLimitServed ==
    \A k \in 1..Len(router) :
        ~router[k].Chain.Open =>
            /\ router[k].RateLimit
            /\ router[k].Chain.RateLimitChain
            /\ \A host \in RouteHosts :
                  HostMatches(router[k].Host, host) =>
                      Resolve(router, host, RateLimitPath(router[k].Prefix)).kind = "ratelimit"

\* C16 (amended): every route of an API that is not open has a rate-limit
\* side-chain mounted at <prefix>/tyk/rate-limits/; a request to that path is
\* served by that side-chain unless a route registered before it matches the
\* request first; and the main handler of a route of an API that is not open
\* never serves a request to the rate-limit path of that route.
C16_RateLimitMounted ==
    /\ \A k \in 1..Len(router) :
          ~router[k].Chain.Open =>
              /\ router[k].RateLimit
              /\ router[k].Chain.RateLimitChain
              /\ \A host \in RouteHosts :
                    HostMatches(router[k].Host, host) =>
                        LET r == Resolve(router, host, RateLimitPath(router[k].Prefix))
                        IN /\ r.route \in 1..k
                           /\ r.route = k => r.kind = "ratelimit"
    /\ (req.via.kind = "main" /\ ~req.via.open) =>
          ~TemplateMatch(RateLimitPath(req.via.prefix), req.via.path, TRUE)
    /\ req.via.kind = "ratelimit" =>
          /\ ~req.via.open
          /\ TemplateMatch(RateLimitPath(req.via.prefix), req.via.path, TRUE)
          /\ req.pc = "done"
          /\ req.chain = Nil

\* C16 witness: the side-chain of API a answered a request to the rate-limit
\* path of a's listen path while another API was registered too.
C16_Witness ==
    /\ req.pc = "done"
    /\ req.via.kind = "ratelimit"
    /\ req.via.api = ID_a
    /\ req.via.prefix = P_x
    /\ \E k \in 1..Len(router) : router[k].APIID # ID_a

\* C17 (as claimed): a request to the rate-limit path of a keyless API gets
\* 404 and does not reach the main chain; any other request under the listen
\* path of a keyless API enters the main chain, which has no authentication
\* stage.
C17_KeylessRateLimit404 ==
    (req.via.kind # "none" /\ req.via.api # <<>> /\ req.via.open) =>
        IF req.via.path = RateLimitPath(req.via.prefix)
        THEN /\ req.pc = "done"
             /\ req.end.status = 404
             /\ req.via.kind # "main"
        ELSE /\ req.via.kind = "main"
             /\ ~req.via.auth

\* C18: the strict-prefix gate is on a route exactly when strict routes are
\* enabled and the prefix neither ends with "/" nor has a routing parameter;
\* a request handed to the catch-all of a gated route reaches the chain if and
\* only if its path is the prefix or begins with the prefix and "/", and gets
\* 404 with the standard status text otherwise, the chain not being entered;
\* a request handed to the catch-all of a route without the gate reaches the
\* chain.
C18_StrictGate ==
    LET HasRoutingParam(prefix) ==
            \E i, j \in 1..Len(prefix) : i < j /\ prefix[i] = "{" /\ prefix[j] = "}"
        AtPrefixBoundary(prefix, path) ==
            /\ Len(path) >= Len(prefix)
            /\ SubSeq(path, 1, Len(prefix)) = prefix
            /\ (Len(path) > Len(prefix) => path[Len(prefix) + 1] = "/")
    IN
    /\ \A k \in 1..Len(router) :
          router[k].Strict <=>
              /\ cfg.EnableStrictRoutes
              /\ ~HasSuffix(router[k].Prefix, <<"/">>)
              /\ ~HasRoutingParam(router[k].Prefix)
    /\ (req.via.kind \in {"main", "gate404"} /\ req.via.strict) =>
          /\ (req.via.kind = "main") <=> AtPrefixBoundary(req.via.prefix, req.via.path)
          /\ req.via.kind = "gate404" =>
                /\ req.pc = "done"
                /\ req.chain = Nil
                /\ req.end.status = 404
                /\ req.end.msg = NotFoundText
    /\ (req.via.kind \in {"main", "gate404"} /\ ~req.via.strict) =>
          req.via.kind = "main"

\* C18 witness: with strict routes on, the gate of the prefix /x answered 404
\* to the request /xy.
C18_Witness ==
    /\ cfg.EnableStrictRoutes
    /\ req.pc = "done"
    /\ req.via.kind = "gate404"
    /\ req.via.prefix = P_x
    /\ req.via.path = <<"/", "x", "y">>

\* C19 (as claimed): the routes of a descriptor with an empty domain and a
\* listen path have no host restriction, so they match a request whatever its
\* Host; the routes of a descriptor with a domain are scoped to that domain.
C19_HostScope ==
    LoadDone =>
        \A sp \in ldr.input :
            \A k \in RoutesOf(router, sp.APIID) :
                IF sp.Domain = <<>>
                THEN sp.ListenPath # <<>> =>
                        /\ router[k].Host = <<>>
                        /\ \A host \in RouteHosts : HostMatches(router[k].Host, host)
                ELSE router[k].Host = sp.Domain

----------------------------------------------------------------------------
(* Properties of the sort                                                  *)

\* C20 (as claimed): sortSpecsByListenPath leaves the descriptors of the list
\* in an order in which every descriptor with a domain precedes every
\* descriptor without one, and inside each of the two groups a descriptor
\* with a longer effective listen path precedes one with a shorter; the sort
\* is stable: the descriptors with the same domain emptiness and the same
\* effective length keep the order they had in the input.
C20_SortStable ==
    ldr.pc = "sorted" =>
        LET in == ldr.input
            out == ldr.specs
            Alike(x, y) ==
                /\ (x.Domain = <<>>) = (y.Domain = <<>>)
                /\ listenPathLength(x.ListenPath) = listenPathLength(y.ListenPath)
            Count(s, x) == Cardinality({i \in DOMAIN s : s[i] = x})
            \* the positions of the descriptors alike x, in order
            Places(s, x) == {i \in DOMAIN s : Alike(s[i], x)}
            Nth(s, x, n) ==
                CHOOSE i \in Places(s, x) : Cardinality({j \in Places(s, x) : j < i}) = n - 1
        IN /\ Len(out) = Len(in)
           /\ \A x \in Range(in) \cup Range(out) : Count(out, x) = Count(in, x)
           /\ \A i, j \in DOMAIN out :
                 i < j =>
                    /\ ~(out[i].Domain = <<>> /\ out[j].Domain # <<>>)
                    /\ ((out[i].Domain = <<>>) = (out[j].Domain = <<>>)) =>
                          listenPathLength(out[i].ListenPath)
                              >= listenPathLength(out[j].ListenPath)
           /\ \A x \in Range(in) :
                 \A n \in 1..Cardinality(Places(in, x)) :
                     out[Nth(out, x, n)] = in[Nth(in, x, n)]

----------------------------------------------------------------------------
(* Properties of the composer                                              *)

\* C21 (as claimed): after processSpec the maximum TLS version of the
\* descriptor is 0 or TLS 1.2, whatever the minimum and the maximum were.
C21_MaxIsZeroOrTLS12 ==
    ldr.pc = "composed" => ldr.specs.tls.Max \in {0, 771}

\* C22: after processSpec the minimum TLS version is at most the maximum; the
\* minimum is as it was, and when it exceeds the clamped maximum (TLS 1.2 for
\* a maximum that was not 0, else 0) the maximum equals the minimum, otherwise
\* the maximum is the clamped maximum.
C22_MinAtMostMax ==
    ldr.pc = "composed" =>
        LET clamped == IF ldr.input.SSLMaxVersion = 0 THEN 0 ELSE 771
        IN /\ ldr.specs.tls.Min <= ldr.specs.tls.Max
           /\ ldr.specs.tls.Min = ldr.input.SSLMinVersion
           /\ ldr.specs.tls.Max = IF ldr.input.SSLMinVersion > clamped
                                  THEN ldr.input.SSLMinVersion
                                  ELSE clamped

\* C22 witness: a descriptor with the minimum TLS 1.3 and the maximum TLS 1.1
\* leaves processSpec with both at TLS 1.3.
C22_Witness ==
    /\ ldr.pc = "composed"
    /\ ldr.input.SSLMinVersion = 772
    /\ ldr.input.SSLMaxVersion = 770
    /\ ldr.specs.tls = [Min |-> 772, Max |-> 772]

\* C23: the proxy of the chain is the multi-target proxy exactly when the
\* descriptor is versioned and one of its versions has a non-empty override
\* target; otherwise it is the single-host reverse proxy of the descriptor's
\* target URL.
C23_MultiTargetIff ==
    ldr.pc = "composed" =>
        IF ~ldr.input.NotVersioned /\ ldr.input.Versions \ {""} # {}
        THEN ldr.specs.proxy.mw = "MultiTargetProxy"
        ELSE /\ ldr.specs.proxy.mw = "TykNewSingleHostReverseProxy"
             /\ ldr.specs.proxy.name = ldr.input.TargetURL

\* C23 witness: a descriptor marked not versioned whose versions have override
\* targets got the single-host proxy.
C23_Witness ==
    /\ ldr.pc = "composed"
    /\ ldr.input.NotVersioned
    /\ "http://v" \in ldr.input.Versions
    /\ ldr.specs.proxy.mw = "TykNewSingleHostReverseProxy"

\* C26 (as claimed): every stage of the main chain is one of the list: version
\* check, CORS, pre-hooks, rate check, IP allow-list, IP deny-list,
\* client-certificate check, org monitor, request-size limit, context
\* variables, endpoint tracker, authentication stages, post-auth hooks,
\* strip-auth, key-expiry, access-rights, granular-access,
\* rate-limit-and-quota, API rate limiter, GraphQL stages, upstream auth,
\* body/shape transforms, mock, cache, virtual endpoint, request signing,
\* native-plugin slot, post-hooks, the sink; the stages are in the order of
\* the list, the hooks in declared order, no stage is there twice and the
\* sink is last.
C26_FixedOrder ==
    ldr.pc = "composed" =>
        LET d == ldr.input
            chain == ldr.specs.chainArray
            AuthMws == {"Oauth2KeyExists", "ExternalOAuthMiddleware", "BasicAuthKeyIsValid",
                        "HTTPSignatureValidationMiddleware", "JWTMiddleware", "OpenIDMW",
                        "AuthKey"}
            Key(st) == IF st.at \in {"pre", "postauth", "post"} THEN st.at
                       ELSE IF st.at = "auth" \/ st.mw \in AuthMws THEN "auth"
                       ELSE st.mw
            Order == << {"VersionCheck"}, {"CORSMiddleware"}, {"pre"}, {"RateCheckMW"},
                        {"IPWhiteListMiddleware"}, {"IPBlackListMiddleware"},
                        {"CertificateCheckMW"}, {"OrganizationMonitor"},
                        {"RequestSizeLimitMiddleware"}, {"MiddlewareContextVars"},
                        {"TrackEndpointMiddleware"}, {"auth"}, {"postauth"}, {"StripAuth"},
                        {"KeyExpired"}, {"AccessRightsCheck"}, {"GranularAccessMiddleware"},
                        {"RateLimitAndQuotaCheck"}, {"RateLimitForAPI"} >>
                     \o << {"GraphQLMiddleware", "GraphQLComplexityMiddleware",
                            "GraphQLGranularAccessMiddleware"} >>
                     \o << {"UpstreamBasicAuth", "UpstreamOAuth"},
                           {"ValidateJSON", "ValidateRequest",
                            "PersistGraphQLOperationMiddleware", "TransformMiddleware",
                            "TransformJQMiddleware", "TransformHeaders",
                            "URLRewriteMiddleware", "TransformMethod"},
                           {"MockResponseMiddleware"}, {"RedisCacheMiddleware"},
                           {"VirtualEndpoint"}, {"RequestSigning"}, {"GoPluginMiddleware"},
                           {"post"}, {"DummyProxyHandler"} >>
            Rank(st) == IF \E k \in DOMAIN Order : Key(st) \in Order[k]
                        THEN CHOOSE k \in DOMAIN Order : Key(st) \in Order[k]
                        ELSE 0
            Hooks(at) == [k \in 1..Cardinality({i \in DOMAIN chain : chain[i].at = at}) |->
                            chain[CHOOSE i \in DOMAIN chain :
                                    /\ chain[i].at = at
                                    /\ Cardinality({j \in 1..i : chain[j].at = at}) = k].name]
            Declared(at) == IF at = "pre" THEN d.Pre ELSE d.Post
        IN /\ \A i \in DOMAIN chain : Rank(chain[i]) > 0
           /\ \A i, j \in DOMAIN chain : i < j =>
                 /\ Rank(chain[i]) <= Rank(chain[j])
                 /\ chain[i] # chain[j]
           /\ \A at \in {"pre", "post"} :
                 \E keep \in SUBSET DOMAIN Declared(at) :
                    /\ Len(Hooks(at)) = Cardinality(keep)
                    /\ \A k \in DOMAIN Hooks(at) :
                          Hooks(at)[k] = Declared(at)[CHOOSE i \in keep :
                                            Cardinality({j \in keep : j <= i}) = k]
           /\ chain[Len(chain)].mw = "DummyProxyHandler"

\* C26 (amended): the same with the streaming stage in the list, after the
\* GraphQL stage and before the GraphQL complexity and GraphQL granular-access
\* stages.
C26_FixedOrderStreaming ==
    ldr.pc = "composed" =>
        LET d == ldr.input
            chain == ldr.specs.chainArray
            AuthMws == {"Oauth2KeyExists", "ExternalOAuthMiddleware", "BasicAuthKeyIsValid",
                        "HTTPSignatureValidationMiddleware", "JWTMiddleware", "OpenIDMW",
                        "AuthKey"}
            Key(st) == IF st.at \in {"pre", "postauth", "post"} THEN st.at
                       ELSE IF st.at = "auth" \/ st.mw \in AuthMws THEN "auth"
                       ELSE st.mw
            Order == << {"VersionCheck"}, {"CORSMiddleware"}, {"pre"}, {"RateCheckMW"},
                        {"IPWhiteListMiddleware"}, {"IPBlackListMiddleware"},
                        {"CertificateCheckMW"}, {"OrganizationMonitor"},
                        {"RequestSizeLimitMiddleware"}, {"MiddlewareContextVars"},
                        {"TrackEndpointMiddleware"}, {"auth"}, {"postauth"}, {"StripAuth"},
                        {"KeyExpired"}, {"AccessRightsCheck"}, {"GranularAccessMiddleware"},
                        {"RateLimitAndQuotaCheck"}, {"RateLimitForAPI"} >>
                     \o << {"GraphQLMiddleware"}, {"StreamingMiddleware"},
                           {"GraphQLComplexityMiddleware",
                            "GraphQLGranularAccessMiddleware"} >>
                     \o << {"UpstreamBasicAuth", "UpstreamOAuth"},
                           {"ValidateJSON", "ValidateRequest",
                            "PersistGraphQLOperationMiddleware", "TransformMiddleware",
                            "TransformJQMiddleware", "TransformHeaders",
                            "URLRewriteMiddleware", "TransformMethod"},
                           {"MockResponseMiddleware"}, {"RedisCacheMiddleware"},
                           {"VirtualEndpoint"}, {"RequestSigning"}, {"GoPluginMiddleware"},
                           {"post"}, {"DummyProxyHandler"} >>
            Rank(st) == IF \E k \in DOMAIN Order : Key(st) \in Order[k]
                        THEN CHOOSE k \in DOMAIN Order : Key(st) \in Order[k]
                        ELSE 0
            Hooks(at) == [k \in 1..Cardinality({i \in DOMAIN chain : chain[i].at = at}) |->
                            chain[CHOOSE i \in DOMAIN chain :
                                    /\ chain[i].at = at
                                    /\ Cardinality({j \in 1..i : chain[j].at = at}) = k].name]
            Declared(at) == IF at = "pre" THEN d.Pre ELSE d.Post
        IN /\ \A i \in DOMAIN chain : Rank(chain[i]) > 0
           /\ \A i, j \in DOMAIN chain : i < j =>
                 /\ Rank(chain[i]) <= Rank(chain[j])
                 /\ chain[i] # chain[j]
           /\ \A at \in {"pre", "post"} :
                 \E keep \in SUBSET DOMAIN Declared(at) :
                    /\ Len(Hooks(at)) = Cardinality(keep)
                    /\ \A k \in DOMAIN Hooks(at) :
                          Hooks(at)[k] = Declared(at)[CHOOSE i \in keep :
                                            Cardinality({j \in keep : j <= i}) = k]
           /\ chain[Len(chain)].mw = "DummyProxyHandler"

\* C26 witness: a chain was composed of every stage, with two pre-hooks, a
\* post-auth hook and two post-hooks.
C26_Witness ==
    /\ ldr.pc = "composed"
    /\ ldr.input.Declines = {}
    /\ ~ldr.input.UseKeylessAccess
    /\ ldr.input.CustomPluginAuth
    /\ Len(ldr.input.Pre) = 2
    /\ Len(ldr.specs.chainArray) > 40

\* C27: the authentication stages of a descriptor that is not keyless are
\* the stages of the schemes that are enabled, the stage of the custom
\* authentication hook if there is one, and the token stage, which is there
\* exactly when standard_auth is set or there is no other authentication
\* stage; so there is at least one, and they are in the main chain in one
\* piece.  The main chain of a keyless descriptor has no authentication
\* stage.
C27_AuthNonEmpty ==
    ldr.pc = "composed" =>
        LET d == ldr.input
            auth == ldr.specs.authArray
            chain == ldr.specs.chainArray
            Schemes == {"Oauth2KeyExists", "ExternalOAuthMiddleware", "BasicAuthKeyIsValid",
                        "HTTPSignatureValidationMiddleware", "JWTMiddleware", "OpenIDMW"}
            IsAuth(st) == st.mw \in Schemes \cup {"AuthKey"} \/ st.at = "auth"
            token == St("AuthKey", "", "")
        IN IF d.UseKeylessAccess
           THEN \A i \in DOMAIN chain : ~IsAuth(chain[i])
           ELSE /\ auth # <<>>
                /\ \A m \in Schemes :
                      St(m, "", "") \in Range(auth) <=> St(m, "", "") \notin d.Declines
                /\ token \in Range(auth) <=>
                      (d.UseStandardAuth \/ Range(auth) \ {token} = {})
                /\ \A i \in DOMAIN auth : IsAuth(auth[i])
                /\ \E k \in 0..(Len(chain) - Len(auth)) :
                      /\ SubSeq(chain, k + 1, k + Len(auth)) = auth
                      /\ \A i \in DOMAIN chain :
                            IsAuth(chain[i]) => i \in (k + 1)..(k + Len(auth))

\* C27 witness: no scheme is enabled and standard_auth is not set: the token
\* stage is the only authentication stage.
C27_Witness ==
    /\ ldr.pc = "composed"
    /\ ~ldr.input.UseKeylessAccess
    /\ ~ldr.input.UseStandardAuth
    /\ ldr.specs.authArray = <<St("AuthKey", "", "")>>

\* C28: the side-chain of a descriptor that is not keyless is made of the
\* enabled ones of IP allow-list, IP deny-list, org monitor and version
\* check, in this order, then the authentication stages of the main chain in
\* the same order, then the enabled ones of key-expiry and access-rights, and
\* it ends in the handler of the rate-limit counters; it has no other stage.
C28_SideChain ==
    (ldr.pc = "composed" /\ ~ldr.input.UseKeylessAccess) =>
        LET d == ldr.input
            auth == ldr.specs.authArray
            side == ldr.specs.simpleArray
            Before == <<"IPWhiteListMiddleware", "IPBlackListMiddleware",
                        "OrganizationMonitor", "VersionCheck">>
            After == <<"KeyExpired", "AccessRightsCheck">>
            On(names) == {i \in DOMAIN names : St(names[i], "", "") \notin d.Declines}
            nb == Cardinality(On(Before))
            na == Cardinality(On(After))
            Pos(names, k) == CHOOSE i \in On(names) :
                                Cardinality({j \in On(names) : j <= i}) = k
        IN /\ Len(side) = nb + Len(auth) + na + 1
           /\ \A k \in 1..nb : side[k] = St(Before[Pos(Before, k)], "", "")
           /\ SubSeq(side, nb + 1, nb + Len(auth)) = auth
           /\ \A k \in 1..na :
                 side[nb + Len(auth) + k] = St(After[Pos(After, k)], "", "")
           /\ side[Len(side)] = St("userRatesCheck", "", "")
           /\ \E k \in 0..(Len(ldr.specs.chainArray) - Len(auth)) :
                 SubSeq(ldr.specs.chainArray, k + 1, k + Len(auth)) = auth

\* C28 witness: a side-chain with all its stages and two authentication
\* stages.
C28_Witness ==
    /\ ldr.pc = "composed"
    /\ ~ldr.input.UseKeylessAccess
    /\ ldr.input.Declines = {}
    /\ ldr.input.UseStandardAuth
    /\ Len(ldr.specs.authArray) >= 2
    /\ Len(ldr.specs.simpleArray) = 7 + Len(ldr.specs.authArray)

C31_BaseIDOfLoadedSet ==
    LoadDone =>
        \A id \in IDs :
           apisByID[id] # Nil =>
              LET bases == {b \in ldr.input : id \in b.Versions}
              IN IF bases = {} THEN apisByID[id].BaseID = <<>>
                 ELSE apisByID[id].BaseID \in {b.APIID : b \in bases}

\* C32: the store binder sets the flag that enforces the org data age
\* whenever the engine of the auth store or of the session store is RPC; the
\* org store is the RPC org store exactly when the auth engine is RPC, and the
\* session store is the RPC store exactly when the session engine is RPC.
C32_RPCEnforcesOrgDataAge ==
    ldr.pc = "bound" =>
        LET spec == ldr.input.spec
            out == ldr.specs
        IN /\ (spec.AuthProvider.StorageEngine = "rpc"
               \/ spec.SessionProvider.StorageEngine = "rpc") => out.EnforceOrgDataAge
           /\ (out.orgStore = generalStores.rpcOrgStore)
                 = (spec.AuthProvider.StorageEngine = "rpc")
           /\ (out.sessionStore = generalStores.rpcAuthStore)
                 = (spec.SessionProvider.StorageEngine = "rpc")

\* C33: the length of a listen path is the number of its '/' plus the lengths
\* of its segments that are no parameter segments; it is the same after a
\* parameter is renamed and after two adjacent static segments are swapped.
C33_EffectiveLength ==
    ldr.pc = "measured" =>
        LET segs == ldr.input.segments
            isParam(g) == Len(g) > 2 /\ g[1] = "{" /\ g[Len(g)] = "}"
            static == {k \in 1..Len(segs) : ~isParam(segs[k])}
            \* the characters of the path that are in a static segment
            counted == {<<k, j>> \in (1..Len(segs)) \X (1..4) :
                           k \in static /\ j <= Len(segs[k])}
            renamed(k, name) == [segs EXCEPT ![k] = <<"{">> \o name \o <<"}">>]
            swapped(k) == [segs EXCEPT ![k] = segs[k + 1], ![k + 1] = segs[k]]
            path(gs) == JoinSlash(gs, ldr.input.rooted)
            slashes == IF ldr.input.rooted THEN Len(segs) ELSE Len(segs) - 1
        IN /\ ldr.specs = slashes + Cardinality(counted)
           /\ static = 1..Len(segs) => ldr.specs = Len(path(segs))
           /\ \A k \in (1..Len(segs)) \ static :
                 \A name \in {<<"n">>, <<"l", "o", "n", "g">>} :
                    listenPathLength(path(renamed(k, name))) = ldr.specs
           /\ \A k \in 1..(Len(segs) - 1) :
                 (k \in static /\ k + 1 \in static) =>
                    listenPathLength(path(swapped(k))) = ldr.specs

\* C33 witness: a path with a parameter between two static segments of
\* different lengths has been measured.
C33_Witness ==
    /\ ldr.pc = "measured"
    /\ ldr.input.segments = <<<<"b", "c">>, <<"{", "y", "z", "}">>, <<"a">>>>
    /\ ldr.input.rooted
    /\ ldr.specs = 6

\* C34 (as claimed): APILoopingName is defined for the name of every live
\* descriptor, a name with '#' being cut before the character that precedes
\* the '#', and fuzzyFindAPI returns a descriptor or "no match" for every
\* search string, also when a live descriptor's name begins with '#'.
C34_LookupDefined ==
    /\ \A api \in LiveSpecs :
          /\ ~APILoopingName(api.Name).panic
          /\ Index(api.Name, "#") = -1 =>
                APILoopingName(api.Name).s = replaceNonAlphaNumeric(api.Name)
          /\ Index(api.Name, "#") > 0 =>
                APILoopingName(api.Name).s =
                    replaceNonAlphaNumeric(SubSeq(api.Name, 1, Index(api.Name, "#") - 1))
    /\ \A search \in {ID_a, ID_b, ID_c, <<"N">>, <<"1">>, <<>>} :
          \A f \in fuzzyFindAPI(search) : f.kind \in {"api", "nil"}

\* C35 (as claimed): in every state the chain table holds a chain object for
\* every descriptor of the HTTP family in the descriptor table, also after a
\* reload in which the load of a descriptor returned an error or panicked; so
\* the load of a descriptor found unchanged, whose listen path is well formed,
\* never panics on a missing chain.
C35_ChainForEveryDescriptor ==
    /\ \A id \in IDs :
          (apisByID[id] # Nil /\ IsHTTPFamily(apisByID[id])) =>
              apisHandlesByID[id] # Nil
    /\ LoadDone =>
          \A sp \in ldr.input :
              (/\ IsHTTPFamily(sp)
               /\ ~shouldReloadSpec(prev.apisByID[sp.APIID], sp)
               /\ ~ValidatePathFails(sp.ListenPath)) =>
                  sp.APIID \notin ldr.panicked

\* C36 (as claimed): the terminal handler never invokes a null handler: a
\* request ends in a panic only where the lookup of fuzzyFindAPI can panic,
\* that is, where the name of a live descriptor has no looping name; a loop
\* target whose chain is missing or has no main handler gives a 500 error.
C36_NoNullHandler ==
    [][(/\ req.pc \in {"chain", "rlock"}
        /\ req'.pc = "done"
        /\ req'.end.kind = "panic") =>
           \E api \in LiveSpecs : APILoopingName(api.Name).panic]_vars

\* C37 (as claimed): on the live router the listen-path routes of one host
\* are in non-increasing order of the effective length of the registered
\* listen path, the path as arbitration left it, and no registered listen
\* path comes before a registered listen path that it is a proper prefix of.
C37_LongestRegisteredFirst ==
    \A i, j \in 1..Len(router) :
        (/\ i < j
         /\ router[i].Listen /\ router[j].Listen
         /\ router[i].Host = router[j].Host) =>
            /\ listenPathLength(router[i].Prefix) >= listenPathLength(router[j].Prefix)
            /\ ~(/\ HasPrefix(router[j].Prefix, router[i].Prefix)
                 /\ router[j].Prefix # router[i].Prefix)

\* C38 (as claimed): loop-target resolution is deterministic: for the live
\* descriptor set and a host string, fuzzyFindAPI has one result, also when
\* the host is the api id of one descriptor and the looping name of another.
C38_LookupDeterministic ==
    \A search \in {ID_a, ID_b, ID_c, <<"z">>, <<"3">>} :
        \A f, g \in fuzzyFindAPI(search) : f = g

\* C39 (as claimed): the allowed access types round-trip as a set: what
\* extractOAuthTo yields after fillOAuth is the set of allowed access types of
\* the definition that was filled, for a fresh OAS document and for one that
\* holds the flows of an earlier fill.
C39_AccessTypesRoundTrip ==
    ldr.pc = "extracted" =>
        ldr.specs.Oauth2Meta.AllowedAccessTypes =
            ldr.input.api.Oauth2Meta.AllowedAccessTypes

\* C40 (as claimed): fillAPIKeyScheme moves exactly one location into the
\* scheme, the one the scheme already records or else the first enabled one
\* of header, query and cookie, and clears it from the auth config;
\* extractAPIKeySchemeTo then restores the name and the enabling flag of that
\* location, so that the auth config is the one that was filled.
C40_LocationRoundTrip ==
    ldr.pc = "restored" =>
        LET ac == ldr.input.ac
            loc == ldr.specs.ref.In
            filled == ldr.specs.filled
        IN /\ loc \in {"header", "query", "cookie"}
           /\ loc = IF ldr.input.ref.In # "" THEN ldr.input.ref.In
                    ELSE IF ~ac.DisableHeader THEN "header"
                    ELSE IF ac.UseParam THEN "query"
                    ELSE "cookie"
           /\ loc = "header" =>
                 filled = [ac EXCEPT !.AuthHeaderName = "", !.DisableHeader = TRUE]
           /\ loc = "query" =>
                 filled = [ac EXCEPT !.ParamName = "", !.UseParam = FALSE]
           /\ loc = "cookie" =>
                 filled = [ac EXCEPT !.CookieName = "", !.UseCookie = FALSE]
           /\ ldr.specs.ac = ac

\* C29: request handling terminates, for every set of loaded APIs and every
\* request: a request that is in a chain is over at some later time, the
\* hand-offs of the terminal handler into a chain (for an internal-scheme
\* request URL, and for a descriptor whose own target URL is internal-scheme)
\* being bounded by the loop cap of the request.
C29_RequestTerminates == [](req.pc = "chain" => <>(req.pc = "done"))

\* C30: the arbitration loop terminates for every descriptor and every
\* collision map.  Every iteration looks up the key of the current listen
\* path; it leaves the loop when fewer than two descriptors claim that key,
\* or when no suffix was added yet and the loaded descriptor of the same api
\* id has this listen path; otherwise the listen path grows, by '-' and the
\* api id the first time and by one '_' after that.  The loop has begun at
\* most one iteration more than there are keys claimed twice, and the listen
\* path it ends with is the one the composer gives the descriptor.
C30_ArbiterTerminates ==
    /\ <>(ldr.pc = "arbitrated")
    /\ [][LET spec == ldr.input.spec
              listenPath == ldr.specs.ListenPath
              count == CountOf(ldr.input.apisByListen,
                               generateDomainPath(spec.Domain, listenPath))
              keeps == /\ ~ldr.specs.pathModified
                       /\ apisByID[spec.APIID] # Nil
                       /\ apisByID[spec.APIID].ListenPath = listenPath
          IN /\ ldr.pc = "arbitrate"
             /\ (ldr'.pc = "arbitrated") = (count < 2 \/ keeps)
             /\ ldr'.pc = "arbitrated" => ldr'.specs.ListenPath = listenPath
             /\ ldr'.pc # "arbitrated" =>
                   /\ ldr'.pc = "arbitrate"
                   /\ ldr'.specs.pathModified
                   /\ ldr'.specs.ListenPath =
                         IF ldr.specs.pathModified THEN listenPath \o <<"_">>
                         ELSE listenPath \o <<"-">> \o spec.APIID]_vars
    /\ [](/\ ldr.specs.iterations <=
                Cardinality({k \in DOMAIN ldr.input.apisByListen :
                                ldr.input.apisByListen[k] >= 2}) + 1
          /\ ldr.specs.iterations < MaxUnderscores + 3 \/ ldr.pc = "arbitrated"
          /\ ldr.pc = "arbitrated" =>
                ldr.specs.ListenPath =
                    ArbitratePath(ldr.input.spec, ldr.input.spec.ListenPath, FALSE,
                                  ldr.input.apisByListen,
                                  getApiSpec(ldr.input.spec.APIID)))

\* C30 witness: the loop has left after the api id and two '_' were appended.
C30_Witness ==
    /\ ldr.pc = "arbitrated"
    /\ ldr.specs.iterations = 4
    /\ ldr.specs.ListenPath =
          ldr.input.spec.ListenPath \o <<"-">> \o ID_a \o <<"_", "_">>

----------------------------------------------------------------------------
(* Properties of the loop dispatcher                                       *)

\* C11 (as claimed): a request never waits for the loader, whether or not the
\* loader holds the API lock: no request is ever blocked in RLock.
C11_NeverWaits == req.pc # "rlock"

C7_LevelWithinCap ==
    (req.pc = "done" /\ req.end.kind = "proxy" /\ req.limit = 0) =>
        req.level <= defaultLoopLevelLimit

\* C8 (as claimed): under the default cap of 5 a request is refused with the
\* loop-depth message for 5 when it has passed through a chain 5 times, its
\* next entry being the 6th (the level is 5 where the entry by the router is
\* not counted among the five, 4 where it is).
C8_SixthEntryRefused ==
    (req.pc = "done" /\ req.limit = 0
        /\ req.end.msg = LoopTooDeep(defaultLoopLevelLimit)) =>
        req.level \in {4, 5}

C10_NoMidRequestRebinding ==
    (req.pc = "chain" /\ req.early) => req.chain.obj # NewObj

====
